---------------------------- MODULE Spec2Model ----------------------------
(***************************************************************************)
(* A model of the Rosa toolchain (Larsouille25/rosa).                      *)
(*                                                                         *)
(* Part 1: the bytecode virtual machine of src/rosa: the run loop, the     *)
(* byte-addressed stack, the constant pool, the dyn-int operand decoder    *)
(* and the instruction set (Spec, SpecStack); the dyn-int codec by itself  *)
(* (SpecDynInt); run() as a loop that keeps turning (SpecRun).             *)
(* Part 2: the lexer of src/internals/rosac_lexer (SpecLexer, and          *)
(* SpecLexing for lex() called again and again) and its token buffer       *)
(* (SpecBuffered).                                                         *)
(* Part 3: the parser of src/internals/rosac_parser: blocks and            *)
(* statements (SpecParser), declarations (SpecDecl), expressions           *)
(* (SpecExpr).                                                             *)
(* Part 4: the symbol table of src/internals/rosac_sema (SpecSymbolTable). *)
(*                                                                         *)
(* Conventions: a Rust Vec<u8> is a sequence of numbers in 0..255, so the  *)
(* byte at Rust index i is element i+1; Option<T> is a sequence of length  *)
(* at most one (<<>> is None, <<v>> is Some(v)).                           *)
(***************************************************************************)
EXTENDS Integers, Sequences, FiniteSets, TLC

VARIABLES
    program,    \* VirtualMachine.program: the chunk's bytes
    pool,       \* VirtualMachine.pool: [layout, data]
    ip,         \* VirtualMachine.ip
    stack,      \* VirtualMachine.stack: the buffer as [len, mem]
    sp,         \* VirtualMachine.sp
    exit,       \* VirtualMachine.exit: Option<u8>
    status,     \* where run() is: "running", or how it ended: "ok", "err", "panic"
    code,       \* the u8 run() returned when status = "ok"
    err,        \* the RuntimeError run() returned when status = "err"
    steps,      \* history: number of instructions dispatched so far
    last,       \* history: the VM at the entry of the latest instruction
    calls,      \* history: the latest direct stack_push_raw / stack_pop_raw calls
    number,     \* DynamicInt: Option<u64>, the argument of encode / the result of decode
    encoded,    \* DynamicInt: Option<Vec<u8>>, the result of encode / the argument of decode
    origin,     \* DynamicInt: the value the codec was first called with
    todo,       \* DynamicInt: the calls still to make, in order
    codec,      \* DynamicInt: "idle", "ok" or "panic"
    lexer,      \* Lexer: [text, it, idx, prev_idx, file_idx]
    lexed,      \* history: what the lex() calls so far returned
    lx_status,  \* Lexer: "idle", "ok", or "panic" / "hang" once a call did not return
    tokbuf,     \* BufferedLexer.buf
    emitted,    \* DiagCtxt: the diagnostics emitted so far
    blcalls,    \* history: the calls of the BufferedLexer so far
    parser,     \* Parser: [prec, indent, checks, blocks], its lexer being the BufferedLexer
    parsed,     \* history: what the calls of the parsing functions returned
    table,      \* SymbolTable.stack
    symcall     \* history: the latest call on the SymbolTable and what it returned

\* the variables of the virtual machine
vm == <<program, pool, ip, stack, sp, exit, status, code, err, steps, last, calls>>

\* the variables of the dyn-int codec
dyn == <<number, encoded, origin, todo, codec>>

\* the variables of the lexer
lx == <<lexer, lexed, lx_status, tokbuf, emitted, blcalls>>

\* the variables of the parser
ps == <<parser, parsed>>

\* the variables of the symbol table
sy == <<table, symcall>>

\* what a step of the virtual machine leaves alone
outside_vm == <<dyn, lx, ps, sy>>

\* what a call of the codec leaves alone
outside_dyn == <<vm, lx, ps, sy>>

\* what a call of the lexer leaves alone
outside_lx == <<vm, dyn, ps, sy>>

\* what a call of the parser leaves alone
outside_ps == <<vm, dyn, sy>>

\* what a call of the symbol table leaves alone
outside_sy == <<vm, dyn, lx, ps>>

vars == <<vm, dyn, lx, ps, sy>>

---------------------------------------------------------------------------
(* Bounds of the model and constants of the program *)

\* longest text of the exhaustive family of texts
MaxTextLen == 3
\* number of EOF tokens after which a behaviour of SpecLexer stops calling lex()
MaxEOFs == 3

\* the calls made on a BufferedLexer, and the largest index peeked
MaxBLCalls == 4

MaxPeek == 2

\* the calls of parsing functions made on one Parser
MaxParses == 2

\* number of scopes after which a behaviour of SpecSymbolTable stops calling scope_enter()
MaxScopes == 3
\* longest chunk of the exhaustive family of programs
MaxChunkLen == 4
\* largest initial stack size (with_stack_size) of the small families
MaxStackSize == 3
\* number of direct stack calls a behaviour of SpecStack makes
MaxCalls == 4

DEFAULT_STACK_SIZE == 65536

Byte == 0..255

None == <<>>

Some(v) == <<v>>

Pow2(n) == 2^n

---------------------------------------------------------------------------
(* RuntimeError *)

NoErr == [kind |-> "none", inst |-> 0, offset |-> 0, msg |-> ""]

UnderFlow == [kind |-> "UnderFlow", inst |-> 0, offset |-> 0, msg |-> ""]

ProgramOverFlow == [kind |-> "ProgramOverFlow", inst |-> 0, offset |-> 0, msg |-> ""]

DynInt == [kind |-> "DynInt", inst |-> 0, offset |-> 0, msg |-> ""]

\* a mutant of UnknownInstErr: the error carries the byte 0, not the opcode read
UnknownInstErr_no_byte(b) == [kind |-> "UnknownInst", inst |-> 0, offset |-> 0, msg |-> ""]

UnknownInstErr(b) == [kind |-> "UnknownInst", inst |-> b, offset |-> 0, msg |-> ""]

UnknownConst(o) == [kind |-> "UnknownConst", inst |-> 0, offset |-> o, msg |-> ""]

ArithmeticError(m) == [kind |-> "ArithmeticError", inst |-> 0, offset |-> 0, msg |-> m]

---------------------------------------------------------------------------
(* Bytes: FromBytes / IntoBytes (big-endian), bit operations *)

RECURSIVE from_bytes(_)
from_bytes(bytes) ==
    IF bytes = <<>> THEN 0
    ELSE from_bytes(SubSeq(bytes, 1, Len(bytes) - 1)) * 256 + bytes[Len(bytes)]

\* value.to_be_bytes() for a type of `size` bytes
into_bytes(value, size) ==
    [i \in 1..size |-> (value \div Pow2(8 * (size - i))) % 256]

\* bool -> u8 -> to_be_bytes()
bool_into_bytes(b) == <<IF b THEN 1 ELSE 0>>

RECURSIVE BitXor(_, _, _)
BitXor(a, b, bits) ==
    IF bits = 0 THEN 0
    ELSE ((a + b) % 2) + 2 * BitXor(a \div 2, b \div 2, bits - 1)

RECURSIVE BitOr(_, _, _)
BitOr(a, b, bits) ==
    IF bits = 0 THEN 0
    ELSE (IF a % 2 = 1 \/ b % 2 = 1 THEN 1 ELSE 0) + 2 * BitOr(a \div 2, b \div 2, bits - 1)

RECURSIVE ones_loop(_, _, _)
ones_loop(byte, mask, ones) ==
    IF mask # 0 /\ (byte \div mask) % 2 = 1
    THEN ones_loop(byte, mask \div 2, ones + 1)
    ELSE ones

ones_before_zero(byte) == ones_loop(byte, 128, 0)


---------------------------------------------------------------------------
(* DynamicInt::decode and VirtualMachine::read_dyn_int *)

\* A u64 is the sequence of its 8 bytes, most significant first (what
\* to_be_bytes() gives), so that values up to 2^64 - 1 are kept exactly.
U64 == [1..8 -> Byte]

\* v as u64, for a v below 2^31
u64_from(v) == [i \in 1..8 |-> IF i <= 4 THEN 0 ELSE into_bytes(v, 4)[i - 4]]

\* x as usize, for an x below 2^31
u64_into(x) == from_bytes(x)

\* byte i of x counted from the least significant one; 0 outside the value
ByteAt(x, i) == IF i \in 0..7 THEN x[8 - i] ELSE 0

\* x >> s on u64, 0 <= s < 64
shr64(x, s) ==
    LET q == s \div 8
        r == s % 8
    IN [i \in 1..8 |->
          (ByteAt(x, 8 - i + q) \div Pow2(r))
          + ((ByteAt(x, 8 - i + q + 1) * Pow2(8 - r)) % 256)]

\* x << s on u64, 0 <= s < 64; the bits shifted out are lost
shl64(x, s) ==
    LET q == s \div 8
        r == s % 8
    IN [i \in 1..8 |->
          ((ByteAt(x, 8 - i - q) * Pow2(r)) % 256)
          + (ByteAt(x, 8 - i - q - 1) \div Pow2(8 - r))]

\* x | y on u64
or64(x, y) == [i \in 1..8 |-> BitOr(x[i], y[i], 8)]

RECURSIVE sub64_loop(_, _, _, _)
sub64_loop(x, y, i, borrow) ==
    IF i = 0 THEN <<>>
    ELSE LET d == x[i] - y[i] - borrow
         IN Append(sub64_loop(x, y, i - 1, IF d < 0 THEN 1 ELSE 0), d % 256)

\* x - y on u64 (wrapping)
sub64(x, y) == sub64_loop(x, y, 8, 0)

\* x <= y on u64
le64(x, y) ==
    \/ x = y
    \/ \E i \in 1..8 : x[i] < y[i] /\ \A j \in 1..(i - 1) : x[j] = y[j]

RECURSIVE mul64_loop(_, _, _, _)
\* [bytes, carry] of the bytes i..1 of x times m, plus carry
mul64_loop(x, m, i, carry) ==
    IF i = 0 THEN [bytes |-> <<>>, carry |-> carry]
    ELSE LET t == x[i] * m + carry
             rest == mul64_loop(x, m, i - 1, t \div 256)
         IN [bytes |-> Append(rest.bytes, t % 256), carry |-> rest.carry]

\* u64::checked_mul, for a factor below 2^16: Option<u64>
checked_mul64(x, m) ==
    LET r == mul64_loop(x, m, 8, 0)
    IN IF r.carry # 0 THEN None ELSE Some(r.bytes)

\* u64::checked_add, for an addend below 2^16: Option<u64>
checked_add64(x, d) ==
    LET r == mul64_loop(x, 1, 8, d)
    IN IF r.carry # 0 THEN None ELSE Some(r.bytes)

RECURSIVE decode_loop_le(_, _, _, _)
\* a mutant of decode_loop: the payload bytes are taken least significant first
decode_loop_le(buf, ones, offset, result) ==
    IF offset > ones THEN result
    ELSE decode_loop_le(buf, ones, offset + 1,
                        or64(result, shl64(u64_from(buf[offset + 1]), 8 * (offset - 1))))

RECURSIVE decode_loop(_, _, _, _)
\* the `for offset in 1..=ones` loop of decode: result |= buf[offset] << rev * 8
decode_loop(buf, ones, offset, result) ==
    IF offset > ones THEN result
    ELSE decode_loop(buf, ones, offset + 1,
                     or64(result, shl64(u64_from(buf[offset + 1]), 8 * (ones - offset))))

\* The outcomes of DynamicInt::decode(buf): [panic, val], val an Option<u64>.
\* With 8 leading ones 2_u8.pow(8) overflows: a build with overflow checks
\* panics there, a build without them wraps (mask = 0xFF, the shift by 64
\* becomes a shift by 0) and goes on.  buf[offset] panics in every build
\* when buf is shorter than ones + 1.
decode(buf) ==
    IF buf = <<>> THEN {[panic |-> FALSE, val |-> None]}
    ELSE LET first == buf[1]
             ones == ones_before_zero(first)
             mask == ((((Pow2(ones) % 256) - 1) % 256) * Pow2(8 - ones)) % 256
             first_part == BitXor(first, mask, 8)
             pos == ones * 8
             wrapped ==
                 IF Len(buf) < ones + 1 THEN [panic |-> TRUE, val |-> None]
                 ELSE [panic |-> FALSE,
                       val |-> Some(decode_loop(buf, ones, 1,
                                                shl64(u64_from(first_part), pos % 64)))]
         IN IF ones = 0 THEN {[panic |-> FALSE, val |-> Some(u64_from(first))]}
            ELSE IF ones = 8 THEN {[panic |-> TRUE, val |-> None], wrapped}
            ELSE {wrapped}

\* bits_dyn_int: (8 - ones - 1) + 8 * ones on u8; for ones = 8 the
\* subtraction overflows, and what is computed here is the wrapped result
bits_dyn_int(ones) == (((8 - ones - 1) % 256) + 8 * ones) % 256

\* size_dyn_int: 2_u64.pow(bits_dyn_int(ones)) - 1
size_dyn_int(ones) == sub64(shl64(u64_from(1), bits_dyn_int(ones)), u64_from(1))

RECURSIVE ones_needed_exclusive(_, _, _)
\* a mutant of ones_needed_loop: the ranges are exclusive (from..size)
ones_needed_exclusive(num, ones, from) ==
    IF le64(from, num) /\ le64(num, size_dyn_int(ones)) /\ num # size_dyn_int(ones)
    THEN [panic |-> FALSE, ones |-> ones]
    ELSE IF ones > 7 THEN [panic |-> TRUE, ones |-> ones]
    ELSE ones_needed_exclusive(num, ones + 1, size_dyn_int(ones))

RECURSIVE ones_needed_loop(_, _, _)
\* the loop of ones_needed; `from` is the start of the current range
ones_needed_loop(num, ones, from) ==
    IF le64(from, num) /\ le64(num, size_dyn_int(ones))
    THEN [panic |-> FALSE, ones |-> ones]
    ELSE IF ones > 7 THEN [panic |-> TRUE, ones |-> ones]
    ELSE ones_needed_loop(num, ones + 1, size_dyn_int(ones))

\* The outcomes of ones_needed(number): [panic, ones].  The loop reaches
\* ones = 8 for a number above size_dyn_int(7); bits_dyn_int(8) overflows, so
\* a build with overflow checks panics there, and a build without them goes
\* on with the range up to 2^63 - 1 and panics for a number above it.
ones_needed(num) ==
    LET r == ones_needed_loop(num, 0, u64_from(0))
    IN IF r.ones = 8 THEN {[panic |-> TRUE, ones |-> 8], r} ELSE {r}

\* a mutant of encode_with: the payload bytes are copied least significant first
encode_with_le(num, ones) ==
    LET encoded_ones == ((((Pow2(ones) % 256) - 1) % 256) * Pow2(8 - ones)) % 256
        bits_to_encode == bits_dyn_int(ones)
        first == BitOr(encoded_ones,
                       ByteAt(shr64(num, bits_to_encode - (bits_to_encode % 8)), 0), 8)
    IN <<first>> \o [i \in 1..ones |-> num[8 - i + 1]]

\* steps 2 to 4 of DynamicInt::encode, for the `ones` that step 1 found
encode_with(num, ones) ==
    LET pow == ((Pow2(ones) % 256) - 1) % 256
        encoded_ones == IF ones # 0 THEN (pow * Pow2(8 - ones)) % 256 ELSE pow
        bits_to_encode == bits_dyn_int(ones)
        first == BitOr(encoded_ones,
                       ByteAt(shr64(num, bits_to_encode - (bits_to_encode % 8)), 0), 8)
    IN IF ones = 0 THEN <<first>>
       ELSE <<first>> \o SubSeq(num, 8 - ones + 1, 8)

\* The outcomes of DynamicInt::encode(number): [panic, bytes].  With
\* ones = 8 (reached without overflow checks only) 2u8.pow(8) - 1 wraps to
\* 0xFF and the 8 bytes of the number follow.
encode(num) ==
    {IF o.panic THEN [panic |-> TRUE, bytes |-> <<>>]
     ELSE [panic |-> FALSE, bytes |-> encode_with(num, o.ones)]
     : o \in ones_needed(num)}

\* Chunk::get
Chunk_get(data, i) == IF i < Len(data) THEN Some(data[i + 1]) ELSE None

\* read_byte: [ok, byte, ip]
read_byte(prog, i) ==
    IF Chunk_get(prog, i) = None THEN [ok |-> FALSE, byte |-> 0, ip |-> i]
    ELSE [ok |-> TRUE, byte |-> Chunk_get(prog, i)[1], ip |-> i + 1]

\* a mutant of read_dyn_int: the slice that runs past the chunk is reported
\* as DynInt
read_dyn_int_short_is_DynInt(prog, i) ==
    LET rb == read_byte(prog, i)
    IN IF ~rb.ok THEN {[panic |-> FALSE, err |-> ProgramOverFlow, val |-> 0, ip |-> i]}
       ELSE LET size == ones_before_zero(rb.byte)
            IN IF rb.ip + size > Len(prog)
               THEN {[panic |-> FALSE, err |-> DynInt, val |-> 0, ip |-> rb.ip]}
               ELSE {IF d.panic THEN [panic |-> TRUE, err |-> NoErr, val |-> 0, ip |-> rb.ip]
                     ELSE IF d.val = None
                     THEN [panic |-> FALSE, err |-> DynInt, val |-> 0, ip |-> rb.ip + size]
                     ELSE [panic |-> FALSE, err |-> NoErr, val |-> u64_into(d.val[1]), ip |-> rb.ip + size]
                     : d \in decode(SubSeq(prog, rb.ip, rb.ip + size))}

\* The outcomes of read_dyn_int: [panic, err, val, ip]; err = NoErr on success.
read_dyn_int(prog, i) ==
    LET rb == read_byte(prog, i)
    IN IF ~rb.ok THEN {[panic |-> FALSE, err |-> ProgramOverFlow, val |-> 0, ip |-> i]}
       ELSE LET size == ones_before_zero(rb.byte)
            IN IF rb.ip + size > Len(prog)
               THEN {[panic |-> FALSE, err |-> ProgramOverFlow, val |-> 0, ip |-> rb.ip]}
               ELSE {IF d.panic THEN [panic |-> TRUE, err |-> NoErr, val |-> 0, ip |-> rb.ip]
                     ELSE IF d.val = None
                     THEN [panic |-> FALSE, err |-> DynInt, val |-> 0, ip |-> rb.ip + size]
                     ELSE [panic |-> FALSE, err |-> NoErr, val |-> u64_into(d.val[1]), ip |-> rb.ip + size]
                     : d \in decode(SubSeq(prog, rb.ip, rb.ip + size))}

---------------------------------------------------------------------------
(* ConstantPool *)

\* ConstantPool::get: Option<&[u8]>
ConstantPool_get(p, offset) ==
    IF offset \notin DOMAIN p.layout THEN None
    ELSE IF offset + p.layout[offset] > Len(p.data) THEN None
    ELSE Some(SubSeq(p.data, offset + 1, offset + p.layout[offset]))

\* ConstantPool::default
ConstantPool_default == [layout |-> <<>>, data |-> <<>>]

---------------------------------------------------------------------------
(* The stack *)

\* The buffer VirtualMachine.stack is the record [len, mem]: len is
\* stack.len() and mem holds the buffer's bytes up to its last non-zero one;
\* the bytes from Len(mem) to len are zero, as vec![0; stack_size] and
\* extend_stack make them. Two records are equal iff the buffers are.

\* vec![0; n]
Zeros(n) == [len |-> n, mem |-> <<>>]

\* the byte at index i (from 0)
at(st, i) == IF i < Len(st.mem) THEN st.mem[i + 1] ELSE 0

\* the slice st[from..to], to <= st.len
slice(st, from, to) == [k \in 1..(to - from) |-> at(st, from + k - 1)]

RECURSIVE trim(_)
\* a byte sequence without its trailing zeros
trim(bytes) ==
    IF bytes # <<>> /\ bytes[Len(bytes)] = 0
    THEN trim(SubSeq(bytes, 1, Len(bytes) - 1))
    ELSE bytes

\* self.stack[p..p + size].copy_from_slice(data), p + size <= st.len
copy_from_slice(st, p, data) ==
    [len |-> st.len,
     mem |-> trim(slice(st, 0, p) \o data
                  \o SubSeq(st.mem, p + Len(data) + 1, Len(st.mem)))]

extend_stack(st, amount) == [st EXCEPT !.len = @ + amount]

\* stack_push_raw: [panic, stack, sp]. The slice self.stack[sp..sp + size]
\* panics when the buffer, grown or not, is still shorter than sp + size.
stack_push_raw(st, p, data) ==
    LET size == Len(data)
        grown == IF st.len < p + size THEN extend_stack(st, p) ELSE st
    IN IF p + size > grown.len THEN [panic |-> TRUE, stack |-> grown, sp |-> p]
       ELSE [panic |-> FALSE, stack |-> copy_from_slice(grown, p, data), sp |-> p + size]

\* a mutant of stack_pop_raw: saturating_sub for checked_sub, so that a pop of
\* more than sp bytes takes the sp bytes there are
stack_pop_raw_saturating(st, p, amount) ==
    LET n == IF amount > p THEN p ELSE amount
    IN [ok |-> TRUE, bytes |-> slice(st, p - n, p), sp |-> p - n]

\* stack_pop_raw: [ok, bytes, sp]; ~ok is Err(UnderFlow)
stack_pop_raw(st, p, amount) ==
    IF amount > p \/ p > st.len THEN [ok |-> FALSE, bytes |-> <<>>, sp |-> p]
    ELSE [ok |-> TRUE, bytes |-> slice(st, p - amount, p), sp |-> p - amount]

\* stack_pop::<T>, T of `size` bytes: [ok, val, sp]
stack_pop(st, p, size) ==
    LET r == stack_pop_raw(st, p, size)
    IN [ok |-> r.ok, val |-> from_bytes(r.bytes), sp |-> r.sp]

\* a mutant of stack_push: self.sp += size is forgotten
stack_push_no_advance(st, p, bytes) ==
    LET size == Len(bytes)
        grown == IF st.len < p + size THEN extend_stack(st, p) ELSE st
    IN IF p + size > grown.len THEN [panic |-> TRUE, stack |-> grown, sp |-> p]
       ELSE [panic |-> FALSE, stack |-> copy_from_slice(grown, p, bytes), sp |-> p]

\* stack_push::<T>, given value.into_bytes(): same growth and copy as stack_push_raw
stack_push(st, p, bytes) ==
    LET size == Len(bytes)
        grown == IF st.len < p + size THEN extend_stack(st, p) ELSE st
    IN IF p + size > grown.len THEN [panic |-> TRUE, stack |-> grown, sp |-> p]
       ELSE [panic |-> FALSE, stack |-> copy_from_slice(grown, p, bytes), sp |-> p + size]

---------------------------------------------------------------------------
(* The instruction set (inst.rs) and the arithmetic macros (arith_macro.rs) *)

NoOpOpcode == 0

ExitOpcode == 1

ConstOpcode == 2

\* size_of::<RustType>() of the first arith_impl! block (opcodes 3..15)
SizeOfRustTypeU8Block == 1

\* size_of::<RustType>() of the second arith_impl! block (opcodes 16..28),
\* which also says RustType = u8
SizeOfRustTypeU16Block == 1

\* opcodes 3..15 of the first block, 16..28 of the second
FirstU8Opcode == 3

FirstU16Opcode == 16

ArithOps == <<"mul", "div", "rem", "add", "sub", "shr", "shl",
              "lt", "gt", "lte", "gte", "eq", "ne">>

U8Opcodes == FirstU8Opcode..(FirstU8Opcode + Len(ArithOps) - 1)

U16Opcodes == FirstU16Opcode..(FirstU16Opcode + Len(ArithOps) - 1)

\* the operation an arithmetic opcode stands for
ArithOp(opcode) ==
    IF opcode \in U8Opcodes THEN ArithOps[opcode - FirstU8Opcode + 1]
    ELSE ArithOps[opcode - FirstU16Opcode + 1]

\* the instructions made by the @aritherr arm, and by the plain arm
AritherrOpcodes ==
    {o \in U8Opcodes \cup U16Opcodes :
        ArithOp(o) \in {"mul", "div", "rem", "add", "sub", "shr", "shl"}}

PlainOpcodes == (U8Opcodes \cup U16Opcodes) \ AritherrOpcodes

INSTRUCTION_SET == {NoOpOpcode, ExitOpcode, ConstOpcode} \cup U8Opcodes \cup U16Opcodes

size_of_RustType(opcode) ==
    IF opcode \in U8Opcodes THEN SizeOfRustTypeU8Block ELSE SizeOfRustTypeU16Block

\* a mutant of checked_mul: wrapping_mul
checked_mul_wrapping(a, b, bits) == Some((a * b) % Pow2(bits))

\* Rust's checked operations on an unsigned type of `bits` bits: an Option
checked_mul(a, b, bits) == IF a * b >= Pow2(bits) THEN None ELSE Some(a * b)

checked_div(a, b, bits) == IF b = 0 THEN None ELSE Some(a \div b)

checked_rem(a, b, bits) == IF b = 0 THEN None ELSE Some(a % b)

checked_add(a, b, bits) == IF a + b >= Pow2(bits) THEN None ELSE Some(a + b)

checked_sub(a, b, bits) == IF a - b < 0 THEN None ELSE Some(a - b)

checked_shr(a, b, bits) == IF b >= bits THEN None ELSE Some(a \div Pow2(b))

checked_shl(a, b, bits) == IF b >= bits THEN None ELSE Some((a * Pow2(b)) % Pow2(bits))

\* a.$op(b.into()) of the @aritherr arm
checked_op(op, a, b, bits) ==
    CASE op = "mul" -> checked_mul(a, b, bits)
      [] op = "div" -> checked_div(a, b, bits)
      [] op = "rem" -> checked_rem(a, b, bits)
      [] op = "add" -> checked_add(a, b, bits)
      [] op = "sub" -> checked_sub(a, b, bits)
      [] op = "shr" -> checked_shr(a, b, bits)
      [] op = "shl" -> checked_shl(a, b, bits)

\* $msg of the @aritherr arm
arith_msg(op) ==
    CASE op = "mul" -> "multiplication overflow"
      [] op = "div" -> "division by zero"
      [] op = "rem" -> "remainder by zero"
      [] op = "add" -> "addition with overflow"
      [] op = "sub" -> "substraction with overflow"
      [] op = "shr" -> "right shift with overflow"
      [] op = "shl" -> "left shift with overflow"

\* a $op b of the plain arm
compare_op(op, a, b) ==
    CASE op = "lt" -> a < b
      [] op = "gt" -> a > b
      [] op = "lte" -> a <= b
      [] op = "gte" -> a >= b
      [] op = "eq" -> a = b
      [] op = "ne" -> a # b

\* What execute() leaves: [status, err, stack, sp]; status "running" is Ok(())
Ok(st, p) == [status |-> "running", err |-> NoErr, stack |-> st, sp |-> p]

Err(e, st, p) == [status |-> "err", err |-> e, stack |-> st, sp |-> p]

Pushed(r) ==
    IF r.panic THEN [status |-> "panic", err |-> NoErr, stack |-> r.stack, sp |-> r.sp]
    ELSE Ok(r.stack, r.sp)

\* a mutant of execute_aritherr: an error puts sp back to its value at entry
execute_aritherr_restores_sp(opcode, st, p) ==
    LET size == size_of_RustType(opcode)
        b == stack_pop(st, p, size)
    IN IF ~b.ok THEN Err(UnderFlow, st, p)
       ELSE LET a == stack_pop(st, b.sp, size)
            IN IF ~a.ok THEN Err(UnderFlow, st, p)
               ELSE LET res == checked_op(ArithOp(opcode), a.val, b.val, 8 * size)
                    IN IF res = None
                       THEN Err(ArithmeticError(arith_msg(ArithOp(opcode))), st, p)
                       ELSE Pushed(stack_push(st, a.sp, into_bytes(res[1], size)))

\* execute() of the @aritherr arm: pop b, pop a, a.$op(b), push
execute_aritherr(opcode, st, p) ==
    LET size == size_of_RustType(opcode)
        b == stack_pop(st, p, size)
    IN IF ~b.ok THEN Err(UnderFlow, st, b.sp)
       ELSE LET a == stack_pop(st, b.sp, size)
            IN IF ~a.ok THEN Err(UnderFlow, st, a.sp)
               ELSE LET res == checked_op(ArithOp(opcode), a.val, b.val, 8 * size)
                    IN IF res = None
                       THEN Err(ArithmeticError(arith_msg(ArithOp(opcode))), st, a.sp)
                       ELSE Pushed(stack_push(st, a.sp, into_bytes(res[1], size)))

\* a mutant of execute_plain: a failed pop puts sp back to its value at entry
execute_plain_restores_sp(opcode, st, p) ==
    LET size == size_of_RustType(opcode)
        b == stack_pop(st, p, size)
    IN IF ~b.ok THEN Err(UnderFlow, st, p)
       ELSE LET a == stack_pop(st, b.sp, size)
            IN IF ~a.ok THEN Err(UnderFlow, st, p)
               ELSE Pushed(stack_push(st, a.sp,
                                      bool_into_bytes(compare_op(ArithOp(opcode), a.val, b.val))))

\* execute() of the plain arm: pop b, pop a, push (a $op b) as a bool
execute_plain(opcode, st, p) ==
    LET size == size_of_RustType(opcode)
        b == stack_pop(st, p, size)
    IN IF ~b.ok THEN Err(UnderFlow, st, b.sp)
       ELSE LET a == stack_pop(st, b.sp, size)
            IN IF ~a.ok THEN Err(UnderFlow, st, a.sp)
               ELSE Pushed(stack_push(st, a.sp,
                                      bool_into_bytes(compare_op(ArithOp(opcode), a.val, b.val))))

\* a mutant of execute_exit: the exit code is read at index sp, one past the top
execute_exit_one_past(st, p) ==
    LET r == stack_pop(st, p, 1)
    IN IF ~r.ok THEN [status |-> "err", err |-> UnderFlow, sp |-> r.sp, exit |-> None]
       ELSE [status |-> "running", err |-> NoErr, sp |-> r.sp,
             exit |-> Some(at(st, p))]

\* ExitInst::execute: [status, err, sp, exit]
execute_exit(st, p) ==
    LET r == stack_pop(st, p, 1)
    IN IF ~r.ok THEN [status |-> "err", err |-> UnderFlow, sp |-> r.sp, exit |-> None]
       ELSE [status |-> "running", err |-> NoErr, sp |-> r.sp, exit |-> Some(r.val)]

\* The outcomes of ConstInst::execute: [status, err, stack, sp, ip]
execute_const(prog, i, pl, st, p) ==
    {IF d.panic THEN [status |-> "panic", err |-> NoErr, stack |-> st, sp |-> p, ip |-> d.ip]
     ELSE IF d.err # NoErr
     THEN [status |-> "err", err |-> d.err, stack |-> st, sp |-> p, ip |-> d.ip]
     ELSE IF ConstantPool_get(pl, d.val) = None
     THEN [status |-> "err", err |-> UnknownConst(d.val), stack |-> st, sp |-> p, ip |-> d.ip]
     ELSE LET r == Pushed(stack_push_raw(st, p, ConstantPool_get(pl, d.val)[1]))
          IN [status |-> r.status, err |-> r.err, stack |-> r.stack, sp |-> r.sp, ip |-> d.ip]
     : d \in read_dyn_int(prog, i)}

---------------------------------------------------------------------------
(* The programs, pools and stack sizes the VM is constructed with *)

\* main.rs: [Const 0, Const 1, U8Add, Exit] over {0 -> [52], 1 -> [49]}
MainChunk == <<ConstOpcode, 0, ConstOpcode, 1, 6, ExitOpcode>>

MainPool == [layout |-> (0 :> 1 @@ 1 :> 1), data |-> <<52, 49>>]

\* a pool with a 3-byte constant, an empty constant, and an entry (2 -> 2)
\* that runs past the end of the buffer
WidePool == [layout |-> (0 :> 3 @@ 1 :> 0 @@ 2 :> 2), data |-> <<7, 8, 9>>]

\* two operands of w bytes each, at offsets 0 and w
OperandPool(a, b) ==
    [layout |-> (0 :> Len(a) @@ Len(a) :> Len(b)), data |-> a \o b]

\* bytes of the exhaustive family: NoOp, Exit, Const, U8Add, and 0x80, which
\* is no opcode and, as an operand, the first byte of a 2-byte dyn-int
ChunkBytes == {NoOpOpcode, ExitOpcode, ConstOpcode, 6, 128}

SmallChunks == UNION {[1..k -> ChunkBytes] : k \in 0..MaxChunkLen}

SmallInputs ==
    [program : SmallChunks,
     pool : {ConstantPool_default, MainPool, WidePool},
     stack_size : 0..MaxStackSize]

\* operand values around every boundary of the u8 operations
ByteSamples == {0, 1, 2, 7, 8, 9, 15, 16, 17, 127, 128, 254, 255}

WordSamples == {<<0, 0>>, <<0, 1>>, <<1, 0>>, <<255, 255>>}

\* [Const a, Const b, op, Exit] for every arithmetic opcode
ArithInputs ==
    {[program |-> <<ConstOpcode, 0, ConstOpcode, 1, op, ExitOpcode>>,
      pool |-> OperandPool(<<a>>, <<b>>),
      stack_size |-> n] :
        a \in ByteSamples, b \in ByteSamples,
        op \in U8Opcodes \cup U16Opcodes, n \in {1, MaxStackSize + 1}}
    \cup
    {[program |-> <<ConstOpcode, 0, ConstOpcode, 2, op, ExitOpcode>>,
      pool |-> OperandPool(a, b),
      stack_size |-> n] :
        a \in WordSamples, b \in WordSamples,
        op \in U16Opcodes, n \in {1, MaxStackSize + 1}}

\* [Const 0, op, Exit]: every arithmetic opcode on a single operand byte
OneOperandInputs ==
    {[program |-> <<ConstOpcode, 0, op, ExitOpcode>>,
      pool |-> MainPool,
      stack_size |-> MaxStackSize] :
        op \in U8Opcodes \cup U16Opcodes}

\* every byte as the only opcode of a chunk
SingleByteInputs ==
    {[program |-> <<b>>, pool |-> ConstantPool_default, stack_size |-> MaxStackSize] :
        b \in Byte}

\* main.rs: VirtualMachine::new(chunk, pool)
MainInput ==
    [program |-> MainChunk, pool |-> MainPool, stack_size |-> DEFAULT_STACK_SIZE]

Inputs ==
    SmallInputs \cup ArithInputs \cup OneOperandInputs \cup SingleByteInputs
    \cup {MainInput}

NoLast == [op |-> -1, ip |-> 0, sp |-> 0, stack |-> Zeros(0), exit |-> None]

\* VirtualMachine::with_stack_size
with_stack_size(prog, stack_size, pl) ==
    /\ program = prog
    /\ pool = pl
    /\ ip = 0
    /\ stack = Zeros(stack_size)
    /\ sp = 0
    /\ exit = None
    /\ status = "running"
    /\ code = 0
    /\ err = NoErr
    /\ steps = 0
    /\ last = NoLast
    /\ calls = <<>>

\* nothing but the virtual machine is in use
NoOrigin == [kind |-> "none", value |-> <<>>]

\* the codec is not in use
NoDynInt ==
    number = None /\ encoded = None /\ origin = NoOrigin /\ todo = <<>> /\ codec = "idle"

\* the lexer is not in use
NoLexer ==
    /\ lexer = [text |-> <<>>, it |-> 0, idx |-> 0, prev_idx |-> 0, file_idx |-> 0]
    /\ lexed = <<>> /\ lx_status = "idle"
    /\ tokbuf = <<>> /\ emitted = <<>> /\ blcalls = <<>>

\* the parser is not in use
NoParser ==
    /\ parser = [prec |-> 0, indent |-> <<>>, checks |-> FALSE, blocks |-> <<>>]
    /\ parsed = <<>>

\* the symbol table is not in use
NoSymbolTable ==
    /\ table = <<>>
    /\ symcall = [op |-> "none", name |-> "", sym |-> 0, ret |-> "Ok", found |-> <<>>]

OnlyVM == NoDynInt /\ NoLexer /\ NoParser /\ NoSymbolTable

Init ==
    /\ \E inp \in Inputs : with_stack_size(inp.program, inp.stack_size, inp.pool)
    /\ OnlyVM

---------------------------------------------------------------------------
(* run(): one action per turn of the loop, by the instruction fetched *)

\* a mutant of Running: the loop forgets self.exit.is_none()
Running_ignores_exit == status = "running" /\ ip < Len(program)

\* the loop condition: self.exit.is_none() && !self.finished()
Running == status = "running" /\ exit = None /\ ip < Len(program)

\* let inst = self.read_byte()?
Fetched == read_byte(program, ip)

Enter(opcode) ==
    /\ steps' = steps + 1
    /\ last' = [op |-> opcode, ip |-> ip, sp |-> sp, stack |-> stack, exit |-> exit]
    /\ UNCHANGED <<program, pool, code, calls>>
    /\ UNCHANGED outside_vm

NoOpInst ==
    /\ Running
    /\ Fetched.byte = NoOpOpcode
    /\ Enter(Fetched.byte)
    /\ ip' = Fetched.ip
    /\ UNCHANGED <<stack, sp, exit, status, err>>

ExitInst ==
    /\ Running
    /\ Fetched.byte = ExitOpcode
    /\ Enter(Fetched.byte)
    /\ ip' = Fetched.ip
    /\ LET r == execute_exit(stack, sp)
       IN /\ sp' = r.sp
          /\ exit' = r.exit
          /\ status' = r.status
          /\ err' = r.err
    /\ UNCHANGED stack

ConstInst ==
    /\ Running
    /\ Fetched.byte = ConstOpcode
    /\ Enter(Fetched.byte)
    /\ \E r \in execute_const(program, Fetched.ip, pool, stack, sp) :
          /\ ip' = r.ip
          /\ stack' = r.stack
          /\ sp' = r.sp
          /\ status' = r.status
          /\ err' = r.err
    /\ UNCHANGED exit

arith_inst_aritherr ==
    /\ Running
    /\ Fetched.byte \in AritherrOpcodes
    /\ Enter(Fetched.byte)
    /\ ip' = Fetched.ip
    /\ LET r == execute_aritherr(Fetched.byte, stack, sp)
       IN /\ stack' = r.stack
          /\ sp' = r.sp
          /\ status' = r.status
          /\ err' = r.err
    /\ UNCHANGED exit

arith_inst_plain ==
    /\ Running
    /\ Fetched.byte \in PlainOpcodes
    /\ Enter(Fetched.byte)
    /\ ip' = Fetched.ip
    /\ LET r == execute_plain(Fetched.byte, stack, sp)
       IN /\ stack' = r.stack
          /\ sp' = r.sp
          /\ status' = r.status
          /\ err' = r.err
    /\ UNCHANGED exit

\* None => return Err(RuntimeError::UnknownInst { inst })
UnknownInst ==
    /\ Running
    /\ Fetched.byte \notin INSTRUCTION_SET
    /\ Enter(Fetched.byte)
    /\ ip' = Fetched.ip
    /\ status' = "err"
    /\ err' = UnknownInstErr(Fetched.byte)
    /\ UNCHANGED <<stack, sp, exit>>

\* the loop ends: finished() sets exit to Some(0) when exit is None and
\* ip >= program.len(); run() returns Ok(self.exit.unwrap())
run_return ==
    /\ status = "running"
    /\ exit # None \/ ip >= Len(program)
    /\ exit' = IF exit = None THEN Some(0) ELSE exit
    /\ status' = "ok"
    /\ code' = exit'[1]
    /\ UNCHANGED <<program, pool, ip, stack, sp, err, steps, last, calls>>
    /\ UNCHANGED outside_vm

Next ==
    \/ NoOpInst
    \/ ExitInst
    \/ ConstInst
    \/ arith_inst_aritherr
    \/ arith_inst_plain
    \/ UnknownInst
    \/ run_return

Spec == Init /\ [][Next]_vars

---------------------------------------------------------------------------
(* Properties of the virtual machine *)

IsMainRun ==
    program = MainChunk /\ pool = MainPool /\ stack.len = DEFAULT_STACK_SIZE

\* Exit has just executed with a byte on top of the stack
ExitPopped == last.op = ExitOpcode /\ last.sp >= 1

\* C1: the chunk of main.rs, [Const 0, Const 1, U8Add, Exit] over the pool
\* {0 -> [52], 1 -> [49]} on a stack of the default size, never ends in an
\* error or a panic, is never stuck, and returns 101; and whenever Exit
\* executes with byte c on top of the stack, exit becomes Some(c) and run()
\* returns c.
C1_MainReturns101 ==
    /\ IsMainRun =>
          /\ status \in {"running", "ok"}
          /\ status = "running" => ENABLED Next
          /\ status = "ok" => code = 52 + 49 /\ code = 101
    /\ ExitPopped =>
          /\ status \in {"running", "ok"}
          /\ exit = Some(at(last.stack, last.sp - 1))
          /\ status = "running" => ENABLED run_return
          /\ status = "ok" => code = at(last.stack, last.sp - 1)

C1_Witness ==
    IsMainRun /\ status = "ok" /\ code = 101 /\ ExitPopped /\ steps = 4

\* C2: an instruction is executed only while exit is unset and ip is inside
\* the chunk; when the loop ends without Exit having executed (the empty
\* chunk included) ip is at the end of the chunk and run() returns 0; once
\* exit is set no instruction is executed any more and run() returns.
C2_State ==
    /\ steps > 0 => last.exit = None /\ last.ip < Len(program)
    /\ (status = "running" /\ exit = None /\ ip >= Len(program)) => ENABLED run_return
    /\ (status = "ok" /\ last.op # ExitOpcode) =>
          code = 0 /\ exit = Some(0) /\ ip >= Len(program)
    /\ exit # None =>
          \/ status = "ok"
          \/ status = "running" /\ last.op = ExitOpcode /\ ENABLED run_return

C2_Step ==
    /\ steps' # steps => (status = "running" /\ exit = None /\ ip < Len(program))
    /\ exit # None => (steps' = steps /\ ip' = ip /\ stack' = stack /\ sp' = sp)

\* C2: in every state of a run the loop conditions hold as stated (C2_State),
\* and every step of run respects them (C2_Step).
C2_RunLoop == []C2_State /\ [][C2_Step]_vars

\* an Exit executed before the end of the chunk, and run() returned its byte
C2_Witness ==
    /\ status = "ok" /\ last.op = ExitOpcode /\ ip < Len(program)
    /\ code = 52 /\ steps = 2

\* the empty chunk returned 0
C2_WitnessEmpty == program = <<>> /\ status = "ok" /\ code = 0 /\ steps = 0

\* the latest instruction returned Ok(()): run() went on, or has returned since
Succeeded == status \in {"running", "ok"}

\* the operands of the latest instruction, read as u8: a below b
OperandA == at(last.stack, last.sp - 2)

OperandB == at(last.stack, last.sp - 1)

\* C3: after a successful u8 arithmetic or compare instruction (opcodes
\* 3..15) sp is the entry sp minus 1: there were two operand bytes, they are
\* popped, one byte is pushed in the place of the lower operand, the bytes
\* below the operands are unchanged and the buffer has not grown.
C3_StackConservation ==
    (last.op \in 3..15 /\ Succeeded) =>
        /\ last.sp >= 2
        /\ sp = last.sp - 1
        /\ slice(stack, 0, last.sp - 2) = slice(last.stack, 0, last.sp - 2)
        /\ at(stack, sp - 1) \in Byte
        /\ stack.len = last.stack.len

\* U8Add on the stack [7, 8, 9] left [7, 17]
C3_Witness ==
    /\ last.op = 6 /\ status = "running" /\ last.sp = 3 /\ sp = 2
    /\ slice(last.stack, 0, 3) = <<7, 8, 9>> /\ slice(stack, 0, 2) = <<7, 17>>

\* the u16 reading of the operands of the latest instruction (big-endian)
OperandA16 == from_bytes(slice(last.stack, last.sp - 4, last.sp - 2))

OperandB16 == from_bytes(slice(last.stack, last.sp - 2, last.sp))

\* C4: opcodes 16..28 are the u16 instructions: a successful one has popped
\* two 2-byte big-endian operands and pushed 2 bytes (arithmetic, 16..22) or
\* 1 byte (compare, 23..28); U16Add (19) pushes the big-endian sum, so
\* 0x0100 + 0x0001 leaves 0x01 0x01.
C4_U16Instructions ==
    (last.op \in 16..28 /\ Succeeded) =>
        /\ last.sp >= 4
        /\ last.op \in 16..22 => sp = last.sp - 4 + 2
        /\ last.op \in 23..28 => sp = last.sp - 4 + 1
        /\ last.op = 19 =>
              slice(stack, sp - 2, sp) = into_bytes(OperandA16 + OperandB16, 2)

\* what the code does on the operands 0x0100 and 0x0001: U16Add adds the two
\* top bytes 0x00 and 0x01 as u8 and leaves [0x01, 0x00, 0x01]
C4_CodeBehaviour ==
    /\ last.op = 19 /\ status = "running" /\ last.sp = 4 /\ sp = 3
    /\ slice(last.stack, 0, 4) = <<1, 0, 0, 1>> /\ slice(stack, 0, 3) = <<1, 0, 1>>

\* C5: when an arithmetic instruction fails with ArithmeticError both
\* operands are popped and nothing is pushed: sp is the entry sp minus
\* 2 * size_of(T), T the RustType of the instruction, the buffer is as it
\* was at entry, exit stays unset, the error carries the message of the
\* operation, and run() has returned it: nothing changes any more.
C5_State ==
    (status = "err" /\ err.kind = "ArithmeticError") =>
        /\ last.op \in (3..9) \cup (16..22)
        /\ sp = last.sp - 2 * size_of_RustType(last.op)
        /\ last.op \in 3..9 => sp = last.sp - 2
        /\ stack = last.stack
        /\ exit = None
        /\ err = ArithmeticError(arith_msg(ArithOp(last.op)))

C5_Step == (status = "err" /\ err.kind = "ArithmeticError") => UNCHANGED vars

IsArith == last.op \in (3..15) \cup (16..28)

ResultByte == at(stack, sp - 1)

Fails(msg) == status = "err" /\ err = ArithmeticError(msg)

Pushes(v) == Succeeded /\ sp = last.sp - 1 /\ ResultByte = v

\* C7: for u8 operands a (pushed first) and b: mul, add and sub push a op b
\* when it lies in 0..255 and fail with ArithmeticError otherwise (the
\* result mod 256 is never pushed); div and rem push the quotient and the
\* remainder when b # 0 and fail when b = 0; shr and shl fail when b >= 8
\* (for b < 8 shr pushes a halved b times and shl the low 8 bits of a
\* doubled b times); a compare pushes 1 when a cmp b holds and 0 otherwise.
C7_U8Arithmetic ==
    (last.op \in 3..15 /\ last.sp >= 2) =>
        LET a == OperandA
            b == OperandB
        IN /\ last.op = 3 => IF a * b <= 255 THEN Pushes(a * b)
                             ELSE Fails("multiplication overflow")
           /\ last.op = 4 => IF b # 0 THEN Pushes(a \div b)
                             ELSE Fails("division by zero")
           /\ last.op = 5 => IF b # 0 THEN Pushes(a % b)
                             ELSE Fails("remainder by zero")
           /\ last.op = 6 => IF a + b <= 255 THEN Pushes(a + b)
                             ELSE Fails("addition with overflow")
           /\ last.op = 7 => IF a - b >= 0 THEN Pushes(a - b)
                             ELSE Fails("substraction with overflow")
           /\ last.op = 8 => IF b >= 8 THEN Fails("right shift with overflow")
                             ELSE Pushes(a \div (2 ^ b))
           /\ last.op = 9 => IF b >= 8 THEN Fails("left shift with overflow")
                             ELSE Pushes((a * (2 ^ b)) % 256)
           /\ last.op = 10 => Pushes(IF a < b THEN 1 ELSE 0)
           /\ last.op = 11 => Pushes(IF a > b THEN 1 ELSE 0)
           /\ last.op = 12 => Pushes(IF a <= b THEN 1 ELSE 0)
           /\ last.op = 13 => Pushes(IF a >= b THEN 1 ELSE 0)
           /\ last.op = 14 => Pushes(IF a = b THEN 1 ELSE 0)
           /\ last.op = 15 => Pushes(IF a # b THEN 1 ELSE 0)

\* 16 * 16 = 256 failed: 0, the product mod 256, was not pushed
C7_Witness ==
    /\ last.op = 3 /\ last.sp = 2 /\ OperandA = 16 /\ OperandB = 16
    /\ Fails("multiplication overflow") /\ sp = 0

\* 2 - 1 = 1 was pushed: a is the operand pushed first
C7_WitnessSub ==
    last.op = 7 /\ last.sp = 2 /\ OperandA = 2 /\ OperandB = 1 /\ Pushes(1)

\* the number of leading 1-bits of a byte, by its value
LeadingOnes(b) ==
    CHOOSE k \in 0..8 : b >= 256 - 2 ^ (8 - k) /\ (k = 8 \/ b < 256 - 2 ^ (7 - k))

\* the dyn-int operand of the latest instruction: its first byte is in the
\* chunk, and so are the k bytes it announces (k <= 7)
OperandFirst == program[last.ip + 2]

OperandInside ==
    /\ last.ip + 1 < Len(program)
    /\ LeadingOnes(OperandFirst) <= 7
    /\ last.ip + 2 + LeadingOnes(OperandFirst) <= Len(program)

\* its value: the bits after the prefix of the first byte, then the k bytes
OperandValue ==
    LET k == LeadingOnes(OperandFirst)
    IN from_bytes(<<OperandFirst - (256 - 2 ^ (8 - k))>>
                  \o SubSeq(program, last.ip + 3, last.ip + 2 + k))

\* what the claim says of a Const whose operand was read as `offset`
ConstEffect(offset) ==
    IF offset \notin DOMAIN pool.layout
    THEN status = "err" /\ err = UnknownConst(offset) /\ sp = last.sp /\ stack = last.stack
    ELSE LET len == pool.layout[offset]
         IN offset + len <= Len(pool.data) =>
               /\ Succeeded
               /\ sp = last.sp + len
               /\ slice(stack, last.sp, sp) = SubSeq(pool.data, offset + 1, offset + len)
               /\ slice(stack, 0, last.sp) = slice(last.stack, 0, last.sp)

\* C8: Const reads the dyn-int operand at ip and leaves ip just past its
\* last byte; when the offset read is a key of the layout, with length len
\* (and the len bytes are in the buffer), exactly the bytes
\* buffer[offset, offset + len) are pushed and sp grows by len; when it is
\* no key, Const fails with UnknownConst(offset) and pushes nothing.
C8_ConstInstruction ==
    (last.op = ConstOpcode /\ OperandInside) =>
        /\ ip = last.ip + 2 + LeadingOnes(OperandFirst)
        /\ ConstEffect(OperandValue)

\* what the code does: the same, unless the push panics, which it does when
\* the constant is longer than the buffer at the time it has to grow
C8_CodeBehaviour ==
    (last.op = ConstOpcode /\ OperandInside) =>
        /\ ip = last.ip + 2 + LeadingOnes(OperandFirst)
        /\ IF /\ OperandValue \in DOMAIN pool.layout
              /\ OperandValue + pool.layout[OperandValue] <= Len(pool.data)
              /\ last.sp + pool.layout[OperandValue] > last.stack.len
              /\ pool.layout[OperandValue] > last.stack.len
           THEN status = "panic"
           ELSE ConstEffect(OperandValue)

\* a Const of the one-byte constant at offset 0 panicked on an empty buffer
C8_PanicReached ==
    /\ last.op = ConstOpcode /\ status = "panic" /\ last.stack.len = 0
    /\ program = <<ConstOpcode, 0>> /\ pool = MainPool

\* C9: when the byte fetched is no opcode of the instruction set (it is not
\* in 0..28), run() returns UnknownInst with that byte and the step leaves
\* the stack, sp and exit as they were; after a runtime error nothing
\* changes any more: no further instruction is executed.
C9_State ==
    (steps > 0 /\ last.op \notin 0..28) =>
        /\ status = "err"
        /\ err = [kind |-> "UnknownInst", inst |-> last.op, offset |-> 0, msg |-> ""]
        /\ last.op = program[last.ip + 1]
        /\ stack = last.stack /\ sp = last.sp /\ exit = last.exit /\ exit = None

C9_Step == status = "err" => UNCHANGED vars

\* C9: an unknown opcode gives UnknownInst(byte) with stack, sp and exit
\* untouched (C9_State), and no instruction runs after an error (C9_Step).
C9_UnknownInst == []C9_State /\ [][C9_Step]_vars

\* the byte 0x80 was fetched after a Const had pushed 52, with a byte to go
C9_Witness ==
    /\ status = "err" /\ err.kind = "UnknownInst" /\ err.inst = 128
    /\ sp = 1 /\ at(stack, 0) = 52 /\ ip < Len(program)

\* every byte from 29 to 255 is refused
C9_WitnessLast == status = "err" /\ err.kind = "UnknownInst" /\ err.inst = 255

---------------------------------------------------------------------------
(* The stack by itself: stack_push_raw and stack_pop_raw are public, and   *)
(* SpecStack calls them directly, in any order, on a fresh VM.             *)

PushData == {<<>>, <<1>>, <<2>>, <<1, 2>>, <<2, 1, 1>>}

PopAmounts == 0..3

InitStack ==
    /\ \E n \in 0..MaxStackSize : with_stack_size(<<>>, n, ConstantPool_default)
    /\ OnlyVM

\* a call is recorded with the sp and the buffer it found
Called(op, arg, n, ok, ret) ==
    calls' = Append(calls, [op |-> op, arg |-> arg, n |-> n, ok |-> ok, ret |-> ret,
                            sp |-> sp, stack |-> stack])

call_stack_push_raw ==
    /\ status = "running"
    /\ Len(calls) < MaxCalls
    /\ \E data \in PushData :
          LET r == stack_push_raw(stack, sp, data)
          IN /\ stack' = r.stack
             /\ sp' = r.sp
             /\ status' = IF r.panic THEN "panic" ELSE status
             /\ Called("push", data, Len(data), ~r.panic, <<>>)
    /\ UNCHANGED <<program, pool, ip, exit, code, err, steps, last>>
    /\ UNCHANGED outside_vm

call_stack_pop_raw ==
    /\ status = "running"
    /\ Len(calls) < MaxCalls
    /\ \E amount \in PopAmounts :
          LET r == stack_pop_raw(stack, sp, amount)
          IN /\ sp' = r.sp
             /\ Called("pop", <<>>, amount, r.ok, r.bytes)
    /\ UNCHANGED <<program, pool, ip, stack, exit, status, code, err, steps, last>>
    /\ UNCHANGED outside_vm

NextStack == call_stack_push_raw \/ call_stack_pop_raw

SpecStack == InitStack /\ [][NextStack]_vars

\* sp and the buffer as call i left them
SpAfter(i) == IF i < Len(calls) THEN calls[i + 1].sp ELSE sp

StackAfter(i) == IF i < Len(calls) THEN calls[i + 1].stack ELSE stack

\* C10: stack_pop_raw(n) with n > sp fails with UnderFlow and leaves sp and
\* the buffer as they were; with n <= sp it returns the bytes stack[sp-n, sp)
\* and leaves sp - n (the buffer is not written); so a completed push of x
\* followed by a pop of |x| bytes returns x and puts sp back.
C10_PopRaw ==
    \A i \in 1..Len(calls) :
        LET c == calls[i]
        IN /\ c.op = "pop" =>
                 /\ StackAfter(i) = c.stack
                 /\ IF c.n > c.sp
                    THEN ~c.ok /\ SpAfter(i) = c.sp
                    ELSE /\ c.ok
                         /\ SpAfter(i) = c.sp - c.n
                         /\ Len(c.ret) = c.n
                         /\ \A k \in 1..c.n : c.ret[k] = at(c.stack, c.sp - c.n + k - 1)
           /\ (i > 1 /\ c.op = "pop" /\ calls[i - 1].op = "push" /\ calls[i - 1].ok
               /\ c.n = Len(calls[i - 1].arg)) =>
                 c.ok /\ c.ret = calls[i - 1].arg /\ SpAfter(i) = calls[i - 1].sp

\* [1, 2] was pushed on top of [2] and popped again; then a pop of 3 bytes
\* failed on the 1 byte left
C10_Witness ==
    /\ Len(calls) = 4
    /\ calls[1].op = "push" /\ calls[1].arg = <<2>>
    /\ calls[2].op = "push" /\ calls[2].arg = <<1, 2>> /\ calls[2].ok
    /\ calls[3].op = "pop" /\ calls[3].n = 2 /\ calls[3].ret = <<1, 2>>
    /\ calls[4].op = "pop" /\ calls[4].n = 3 /\ ~calls[4].ok
    /\ sp = 1

---------------------------------------------------------------------------
(* The dyn-int codec by itself: SpecDynInt calls DynamicInt::encode and    *)
(* then decode on a number, or decode and then encode on a byte sequence.  *)

\* first bytes of interest: around every power of two, and a mixed pattern
TopBytes == {0, 1, 2, 3, 4, 7, 8, 15, 16, 31, 32, 63, 64, 127, 128, 165, 255}

\* p bytes, each 0x00 or 0xFF, or the p bytes 48, 85, 122, ...
Fills(p) == [1..p -> {0, 255}] \cup {[i \in 1..p |-> ((37 * i + 11) % 256)]}

\* the bytes of seq as the low bytes of a u64
Pad8(seq) ==
    [i \in 1..8 |-> IF i <= 8 - Len(seq) THEN 0 ELSE seq[i - (8 - Len(seq))]]

\* arguments of encode: a top byte over 0..7 filled bytes, so that both sides
\* of every size_dyn_int(k) are there, and values above 2^56 - 1 and 2^63 - 1
Numbers == {Pad8(<<t>> \o f) : t \in TopBytes, f \in UNION {Fills(p) : p \in 0..7}}

\* arguments of decode of length k + 1 whose first byte has k leading ones
\* and a 0: the smallest, the second and the largest payload in that byte
DynInts ==
    UNION {{<<256 - Pow2(8 - k) + pl>> \o f :
               pl \in {0, 1 % Pow2(7 - k), Pow2(7 - k) - 1}, f \in Fills(k)}
           : k \in 0..7}

\* arguments of decode that are no dyn-int: nothing, too short, 8 leading ones
NoDynInts ==
    {<<>>, <<128>>, <<192, 1>>, <<255>>, <<255, 1, 2, 3, 4, 5, 6, 7, 8>>,
     <<255, 0, 0, 0, 0, 0, 0, 0, 9>>}

\* the virtual machine is not in use
NoVM == with_stack_size(<<>>, 0, ConstantPool_default)

InitDynInt ==
    /\ NoVM /\ NoLexer /\ NoParser /\ NoSymbolTable
    /\ codec = "ok"
    /\ \/ \E n \in Numbers :
             /\ number = Some(n) /\ encoded = None
             /\ origin = [kind |-> "number", value |-> n]
             /\ todo = <<"encode", "decode">>
       \/ \E b \in DynInts \cup NoDynInts :
             /\ number = None /\ encoded = Some(b)
             /\ origin = [kind |-> "bytes", value |-> b]
             /\ todo = <<"decode", "encode">>

DynamicInt_encode ==
    /\ codec = "ok" /\ todo # <<>> /\ Head(todo) = "encode"
    /\ number # None
    /\ \E r \in encode(number[1]) :
          /\ encoded' = IF r.panic THEN None ELSE Some(r.bytes)
          /\ codec' = IF r.panic THEN "panic" ELSE "ok"
    /\ todo' = Tail(todo)
    /\ UNCHANGED <<number, origin>>
    /\ UNCHANGED outside_dyn

DynamicInt_decode ==
    /\ codec = "ok" /\ todo # <<>> /\ Head(todo) = "decode"
    /\ encoded # None
    /\ \E r \in decode(encoded[1]) :
          /\ number' = r.val
          /\ codec' = IF r.panic THEN "panic" ELSE "ok"
    /\ todo' = Tail(todo)
    /\ UNCHANGED <<encoded, origin>>
    /\ UNCHANGED outside_dyn

NextDynInt == DynamicInt_encode \/ DynamicInt_decode

SpecDynInt == InitDynInt /\ [][NextDynInt]_vars

\* 2^56 - 1
Max56 == <<0, 255, 255, 255, 255, 255, 255, 255>>

\* C11: for every n in [0, 2^56), encode(n) returns and decode of what it
\* returned is Some(n).
C11_DecodeEncode ==
    (origin.kind = "number" /\ le64(origin.value, Max56)) =>
        /\ codec = "ok"
        /\ todo = <<"decode">> => encoded # None
        /\ todo = <<>> => number = Some(origin.value)

\* 2^56 - 1 went through 0xFE and seven 0xFF bytes and came back
C11_Witness ==
    /\ origin = [kind |-> "number", value |-> Max56]
    /\ todo = <<>>
    /\ encoded = Some(<<254, 255, 255, 255, 255, 255, 255, 255>>)
    /\ number = Some(Max56)

\* a byte sequence of length k + 1, 0 <= k <= 7, whose first byte has exactly
\* k leading 1-bits
IsDynInt(b) == Len(b) \in 1..8 /\ ones_before_zero(b[1]) = Len(b) - 1

\* C12 as claimed: every such byte sequence decodes to a value n in
\* [0, 2^56) for which encode(n) is that same byte sequence.
C12_Bijection ==
    (origin.kind = "bytes" /\ IsDynInt(origin.value)) =>
        /\ codec = "ok"
        /\ todo # <<"decode", "encode">> => number # None /\ le64(number[1], Max56)
        /\ todo = <<>> => encoded = Some(origin.value)

\* C12, amended: every such byte sequence b, of length k + 1, decodes to a
\* value n <= size_dyn_int(k); encode(n) is never longer than b, decodes to
\* n as well, and is b itself exactly when b is the shortest form of n, that
\* is when k = 0 or n > size_dyn_int(k - 1).
C12_ShortestForm ==
    (origin.kind = "bytes" /\ IsDynInt(origin.value)) =>
        LET k == Len(origin.value) - 1
        IN /\ codec = "ok"
           /\ todo # <<"decode", "encode">> =>
                 number # None /\ le64(number[1], size_dyn_int(k))
           /\ todo = <<>> =>
                 /\ encoded # None
                 /\ Len(encoded[1]) <= k + 1
                 /\ decode(encoded[1]) = {[panic |-> FALSE, val |-> number]}
                 /\ encoded[1] = origin.value
                       <=> (k = 0 \/ ~le64(number[1], size_dyn_int(k - 1)))

\* 0x80 0x00 decoded to 0, which encode gave back as the single byte 0x00,
\* the other sequence that decodes to 0
C12_Witness ==
    /\ origin = [kind |-> "bytes", value |-> <<128, 0>>]
    /\ todo = <<>>
    /\ number = Some(u64_from(0))
    /\ encoded = Some(<<0>>)

\* 0x80 0xFF is the shortest form of 255 and came back
C12_WitnessShortest ==
    /\ origin = [kind |-> "bytes", value |-> <<128, 255>>]
    /\ todo = <<>>
    /\ number = Some(u64_from(255))
    /\ encoded = Some(<<128, 255>>)

RECURSIVE Dec(_)
\* the u64 written in decimal with the digits ds
Dec(ds) ==
    IF ds = <<>> THEN u64_from(0)
    ELSE LET front == Dec(SubSeq(ds, 1, Len(ds) - 1))
         IN IF Len(front) = 8 /\ checked_mul64(front, 10) # None
            THEN checked_add64(checked_mul64(front, 10)[1], ds[Len(ds)])[1]
            ELSE <<>>

\* 127, 16383, 2097151, 268435455, 34359738367, 4398046511103,
\* 562949953421311 and 72057594037927935
Largest ==
    <<Dec(<<1, 2, 7>>),
      Dec(<<1, 6, 3, 8, 3>>),
      Dec(<<2, 0, 9, 7, 1, 5, 1>>),
      Dec(<<2, 6, 8, 4, 3, 5, 4, 5, 5>>),
      Dec(<<3, 4, 3, 5, 9, 7, 3, 8, 3, 6, 7>>),
      Dec(<<4, 3, 9, 8, 0, 4, 6, 5, 1, 1, 1, 0, 3>>),
      Dec(<<5, 6, 2, 9, 4, 9, 9, 5, 3, 4, 2, 1, 3, 1, 1>>),
      Dec(<<7, 2, 0, 5, 7, 5, 9, 4, 0, 3, 7, 9, 2, 7, 9, 3, 5>>)>>

\* C13: for n in [0, 2^56), encode(n) has length k + 1 for the smallest k in
\* 0..7 with n <= Largest[k], its first byte has exactly k leading 1-bits and
\* then a 0, and Largest[k] = 2^(7+7k) - 1 = size_dyn_int(k) is 127, 16383,
\* ..., 72057594037927935 (Largest[k] is element k + 1 of the sequence).
C13_SmallestSize ==
    (origin.kind = "number" /\ le64(origin.value, Max56) /\ todo = <<"decode">>) =>
        /\ encoded # None
        /\ LET b == encoded[1]
               k == Len(b) - 1
           IN /\ k \in 0..7
              /\ b[1] \div Pow2(7 - k) = Pow2(k + 1) - 2
              /\ le64(origin.value, Largest[k + 1])
              /\ k > 0 => ~le64(origin.value, Largest[k])
              /\ size_dyn_int(k) = Largest[k + 1]
              /\ Largest[k + 1] = sub64(shl64(u64_from(1), 7 + 7 * k), u64_from(1))

\* 34359738367 = 2^35 - 1 is the largest value of 5 bytes: 0xF7 and four 0xFF
C13_Witness ==
    /\ origin = [kind |-> "number", value |-> Largest[5]]
    /\ todo = <<"decode">>
    /\ encoded = Some(<<247, 255, 255, 255, 255>>)

\* 34359738368 = 2^35 takes 6 bytes
C13_WitnessNext ==
    /\ origin = [kind |-> "number", value |-> <<0, 0, 0, 8, 0, 0, 0, 0>>]
    /\ todo = <<"decode">>
    /\ encoded = Some(<<248, 8, 0, 0, 0, 0>>)

---------------------------------------------------------------------------
(***************************************************************************)
(* Part 2: the lexer of src/internals/rosac_lexer.                         *)
(*                                                                         *)
(* A text is the sequence of its Unicode scalars (code points); a String   *)
(* is a sequence of code points too.  A Lexer is the record                *)
(*   [text, it, idx, prev_idx, file_idx]                                   *)
(* where `it` is the number of scalars the iterator has yielded and        *)
(* file_idx is LexrFile.idx.                                               *)
(***************************************************************************)

\* the length in bytes of the UTF-8 encoding of a scalar
len_utf8(c) == IF c < 128 THEN 1 ELSE IF c < 2048 THEN 2 ELSE IF c < 65536 THEN 3 ELSE 4

RECURSIVE str_len(_)
\* str::len(): the length of a text in bytes
str_len(text) ==
    IF text = <<>> THEN 0
    ELSE str_len(SubSeq(text, 1, Len(text) - 1)) + len_utf8(text[Len(text)])

\* the byte index char_indices() gives with scalar number k + 1
char_index(text, k) == str_len(SubSeq(text, 1, k))

\* LexrFile::length / chars().count()
LexrFile_length(text) == Len(text)

\* Span { lo, hi }
Span_new(lo, hi) == [lo |-> lo, hi |-> hi]

\* Token { tt, loc }: tt with the keyword's or punctuation's name and the
\* payload of Int (a u64), Str, Char and Ident (scalars)
Token(tt, name, val, loc) ==
    [tt |-> tt, name |-> name, val |-> val, lo |-> loc.lo, hi |-> loc.hi]

NoToken == [tt |-> "none", name |-> "", val |-> <<>>, lo |-> 0, hi |-> 0]

\* dcx.struct_err(msg, span); arg is what format! puts into the message
struct_err(msg, arg, span) == [msg |-> msg, arg |-> arg, lo |-> span.lo, hi |-> span.hi]

\* Lexer::new
Lexer_new(text) == [text |-> text, it |-> 0, idx |-> 0, prev_idx |-> 0, file_idx |-> 0]

\* Lexer::peek / LexrFile::peek
Lexer_peek(L) == IF L.it < Len(L.text) THEN Some(L.text[L.it + 1]) ELSE None

\* the lexer after Lexer::pop (what it returns is Lexer_peek before):
\* self.idx += 1 in every case, then LexrFile::pop
Lexer_pop(L) ==
    IF L.it < Len(L.text)
    THEN [L EXCEPT !.idx = @ + 1, !.it = @ + 1, !.file_idx = char_index(L.text, L.it)]
    ELSE [L EXCEPT !.idx = @ + 1]

current_span(L) == Span_new(L.prev_idx, L.idx)

current_span_end(L) == Span_new(L.prev_idx, L.idx - 1)

\* the scalars skip_useless_whitespace skips
Whitespace ==
    {32} \cup 11..13 \cup {133, 160, 5760} \cup 8192..8202
    \cup {8232, 8233, 8239, 8287, 12288}

RECURSIVE skip_useless_whitespace(_)
skip_useless_whitespace(L) ==
    IF Lexer_peek(L) # None /\ Lexer_peek(L)[1] \in Whitespace
    THEN skip_useless_whitespace(Lexer_pop(L))
    ELSE L

RECURSIVE skip_line(_)
\* while self.pop() != Some('\n') {}: [hang, L]; at the end of the text pop()
\* returns None for ever
skip_line(L) ==
    IF Lexer_peek(L) = None THEN [hang |-> TRUE, L |-> L]
    ELSE IF Lexer_peek(L)[1] = 10 THEN [hang |-> FALSE, L |-> Lexer_pop(L)]
    ELSE skip_line(Lexer_pop(L))

RECURSIVE skip_comments(_)
\* [hang, L]
skip_comments(L) ==
    IF Lexer_peek(L) = Some(35)
    THEN LET r == skip_line(L)
         IN IF r.hang THEN r ELSE skip_comments(skip_useless_whitespace(r.L))
    ELSE [hang |-> FALSE, L |-> L]

IsLetter(c) == c \in 65..90 \/ c \in 97..122

IsDigit(c) == c \in 48..57

\* the first scalar of a word: 'A'..='Z' | 'a'..='z' | '_' | '0'..='9'
IsWordStart(c) == IsLetter(c) \/ c = 95 \/ IsDigit(c)

\* Punctuation::size
Punctuation_size(p) ==
    IF p \in {"Equal2", "ExclamationmarkEqual", "LArrow2", "LArrowEqual",
              "RArrow2", "RArrowEqual"}
    THEN 2 ELSE 1

\* could_make_punct(c) with self.peek() = next: the punctuation's name, ""
\* for None
could_make_punct(c, next) ==
    CASE c = 40 -> "RParen"   [] c = 41 -> "LParen"
      [] c = 91 -> "RBracket" [] c = 93 -> "LBracket"
      [] c = 123 -> "RBrace"  [] c = 125 -> "LBrace"
      [] c = 58 -> "Colon"    [] c = 59 -> "Semi"
      [] c = 44 -> "Comma"    [] c = 64 -> "At"
      [] c = 42 -> "Asterisk" [] c = 94 -> "Caret"
      [] c = 46 -> "Dot"      [] c = 45 -> "Minus"
      [] c = 37 -> "Percent"  [] c = 43 -> "Plus"
      [] c = 47 -> "Slash"
      [] c = 33 -> IF next = Some(61) THEN "ExclamationmarkEqual" ELSE "Exclamationmark"
      [] c = 61 -> IF next = Some(61) THEN "Equal2" ELSE "Equal"
      [] c = 60 -> IF next = Some(60) THEN "LArrow2"
                   ELSE IF next = Some(61) THEN "LArrowEqual" ELSE "LArrow"
      [] c = 62 -> IF next = Some(62) THEN "RArrow2"
                   ELSE IF next = Some(61) THEN "RArrowEqual" ELSE "RArrow"
      [] OTHER -> ""

\* the words Keyword::from_str accepts
Keywords ==
    {<<102, 117, 110>>  (* fun *),
     <<114, 101, 116, 117, 114, 110>>  (* return *),
     <<118, 97, 108>>  (* val *),
     <<118, 97, 114>>  (* var *),
     <<116, 121, 112, 101>>  (* type *),
     <<116, 114, 117, 101>>  (* true *),
     <<102, 97, 108, 115, 101>>  (* false *),
     <<105, 102>>  (* if *),
     <<101, 108, 115, 101>>  (* else *)}

\* Keyword::from_str(word).is_ok()
Keyword_from_str(word) == word \in Keywords

\* lex_keyword: KW(kw) or Ident(word); the token keeps the word
lex_keyword(word) == IF Keyword_from_str(word) THEN "KW" ELSE "Ident"

RECURSIVE make_word_loop(_, _, _)
\* the loop of make_word: [L, word, numeric]
make_word_loop(L, word, numeric) ==
    IF Lexer_peek(L) = None THEN [L |-> L, word |-> word, numeric |-> numeric]
    ELSE LET c == Lexer_peek(L)[1]
         IN IF IsLetter(c) THEN make_word_loop(Lexer_pop(L), Append(word, c), FALSE)
            ELSE IF IsDigit(c) \/ c = 95
            THEN make_word_loop(Lexer_pop(L), Append(word, c), numeric)
            ELSE [L |-> L, word |-> word, numeric |-> numeric]

\* make_word(c): c.is_numeric() is '0'..='9' for the scalars a word starts with
make_word(L, c) == make_word_loop(L, <<c>>, IsDigit(c))

\* the digit of a scalar in parse_u64, -1 for '_' and -2 for an invalid one
digit_of(c) ==
    IF IsDigit(c) THEN c - 48
    ELSE IF c \in 97..122 THEN c - 97 + 10
    ELSE IF c \in 65..90 THEN c - 65 + 10
    ELSE IF c = 95 THEN -1
    ELSE -2

RECURSIVE parse_u64_wrapping(_, _, _, _)
\* a mutant of parse_u64_loop: wrapping_mul and wrapping_add
parse_u64_wrapping(input, k, radix, result) ==
    IF k > Len(input) THEN [err |-> "", at |-> 0, val |-> result]
    ELSE LET digit == digit_of(input[k])
         IN IF digit = -1 THEN parse_u64_wrapping(input, k + 1, radix, result)
            ELSE IF digit = -2
            THEN [err |-> "InvalidCharacter", at |-> k, val |-> result]
            ELSE IF digit >= radix
            THEN [err |-> "DigitOutOfRange", at |-> k, val |-> result]
            ELSE LET m == mul64_loop(result, radix, 8, 0).bytes
                     a == mul64_loop(m, 1, 8, digit).bytes
                 IN IF Len(a) = 8
                    THEN parse_u64_wrapping(input, k + 1, radix, a)
                    ELSE [err |-> "", at |-> 0, val |-> a]

RECURSIVE parse_u64_loop(_, _, _, _)
\* the loop of parse_u64 from scalar number k on: [err, at, val], err = ""
\* for Ok(val), at the number of the offending scalar
parse_u64_loop(input, k, radix, result) ==
    IF k > Len(input) THEN [err |-> "", at |-> 0, val |-> result]
    ELSE LET digit == digit_of(input[k])
         IN IF digit = -1 THEN parse_u64_loop(input, k + 1, radix, result)
            ELSE IF digit = -2
            THEN [err |-> "InvalidCharacter", at |-> k, val |-> result]
            ELSE IF digit >= radix
            THEN [err |-> "DigitOutOfRange", at |-> k, val |-> result]
            ELSE LET m == checked_mul64(result, radix)
                 IN IF m = None
                    THEN [err |-> "IntegerOverflow", at |-> k, val |-> result]
                    ELSE LET a == checked_add64(m[1], digit)
                         IN IF a = None
                            THEN [err |-> "IntegerOverflow", at |-> k, val |-> result]
                            ELSE parse_u64_loop(input, k + 1, radix, a[1])

parse_u64(input, radix) ==
    IF radix \notin 2..36 THEN [err |-> "InvalidRadix", at |-> 0, val |-> u64_from(0)]
    ELSE parse_u64_loop(input, 1, radix, u64_from(0))

\* make_int: the arms of match parse_u64(num, radix), [panic, err, diag, val].
\* The message of InvalidCharacter takes &num[i..i + 1], which panics when the
\* scalar at i is longer than a byte.
make_int_match(L, num, r) ==
    LET i == char_index(num, r.at - 1)
        ok == [panic |-> FALSE, err |-> FALSE, diag |-> struct_err("", <<>>, Span_new(0, 0)),
               val |-> r.val]
    IN CASE r.err = "" -> ok
         [] r.err = "IntegerOverflow" ->
              [ok EXCEPT !.err = TRUE,
                         !.diag = struct_err("integer literal is too large", <<>>,
                                             current_span(L))]
         [] r.err = "DigitOutOfRange" ->
              [ok EXCEPT !.err = TRUE,
                         !.diag = struct_err("digit out of radix", <<num[r.at]>>,
                                             Span_new(i + L.prev_idx, i + 1 + L.prev_idx))]
         [] r.err = "InvalidCharacter" ->
              IF len_utf8(num[r.at]) > 1 THEN [ok EXCEPT !.panic = TRUE]
              ELSE [ok EXCEPT !.err = TRUE,
                              !.diag = struct_err("invalid character in literal", <<num[r.at]>>,
                                                  Span_new(i + L.idx - 2, i + 1 + L.idx - 2))]
         [] OTHER ->
              [ok EXCEPT !.err = TRUE,
                         !.diag = struct_err("invalid radix", <<>>, current_span(L))]

\* make_int: match parse_u64(num, radix) { .. }
make_int(L, num, radix) == make_int_match(L, num, parse_u64(num, radix))

\* what lex() returns and the lexer it leaves: kind is "Ok", "Fuzzy" or "Err"
\* (the Fuzzy<Token, Diag> returned), "panic", or "hang" when lex() does not
\* return
Lexed(kind, tok, diags, L) == [kind |-> kind, tok |-> tok, diags |-> diags, L |-> L]

\* lex_int: the arms of the match
lex_int_match(L, r) ==
    IF r.panic THEN Lexed("panic", NoToken, <<>>, L)
    ELSE IF r.err THEN Lexed("Err", NoToken, <<r.diag>>, L)
    ELSE Lexed("Ok", Token("Int", "", r.val, current_span(L)), <<>>, L)

\* lex_int: match self.make_int(&num, 10) { .. }
lex_int(L, num) == lex_int_match(L, make_int(L, num, 10))

\* lex_word: the word made, a number or not
lex_word_made(w) ==
    IF w.numeric THEN lex_int(w.L, w.word)
    ELSE Lexed("Ok", Token(lex_keyword(w.word), "", w.word, current_span(w.L)), <<>>, w.L)

\* lex_word: let (word, numeric) = self.make_word(c); ..
lex_word(L, c) == lex_word_made(make_word(L, c))

\* make_hex_es: what make_int(&str, 16) gave, [panic, L, err, ch, diag]
make_hex_es_made(L2, r) ==
    [panic |-> r.panic, L |-> L2, err |-> r.err, ch |-> ByteAt(r.val, 0), diag |-> r.diag]

\* make_hex_es: two pops, then make_int(&str, 16)
make_hex_es(L) ==
    LET c1 == Lexer_peek(L)
        L1 == Lexer_pop(L)
        c2 == Lexer_peek(L1)
        L2 == Lexer_pop(L1)
        unterminated(LL) ==
            [panic |-> FALSE, L |-> LL, err |-> TRUE, ch |-> 0,
             diag |-> struct_err("unterminated string literal", <<>>, current_span(LL))]
    IN IF c1 = None THEN unterminated(L1)
       ELSE IF c2 = None THEN unterminated(L2)
       ELSE make_hex_es_made(L2, make_int(L2, <<c1[1], c2[1]>>, 16))

\* make_escape_sequence(es): [panic, L, err, ch, diag]
make_escape_sequence(L, es) ==
    LET ok(ch) == [panic |-> FALSE, L |-> L, err |-> FALSE, ch |-> ch,
                   diag |-> struct_err("", <<>>, Span_new(0, 0))]
        failed(msg) == [panic |-> FALSE, L |-> L, err |-> TRUE, ch |-> 0,
                        diag |-> struct_err(msg, <<es>>, Span_new(L.idx - 2, L.idx))]
    IN CASE es = 48 -> ok(0)
         [] es = 110 -> ok(10)
         [] es = 114 -> ok(13)
         [] es = 116 -> ok(9)
         [] es = 120 -> make_hex_es(L)
         [] es = 117 -> failed("unicode escape sequence are not yet supported")
         [] OTHER -> failed("unknown escape sequence")

RECURSIVE lex_str_loop(_, _, _)
\* lex_str: what make_escape_sequence gave
lex_str_escaped(r, str, diags) ==
    IF r.panic THEN Lexed("panic", NoToken, <<>>, r.L)
    ELSE IF r.err THEN lex_str_loop(r.L, str, Append(diags, r.diag))
    ELSE lex_str_loop(r.L, Append(str, r.ch), diags)

\* lex_str: the loop, one scalar or one escape sequence a turn
lex_str_loop(L, str, diags) ==
    LET c == Lexer_peek(L)
        L1 == Lexer_pop(L)
        es == Lexer_peek(L1)
        L2 == Lexer_pop(L1)
    IN IF c = None
       THEN Lexed("Err", NoToken,
                  <<struct_err("unterminated string literal", <<>>, current_span_end(L))>>, L)
       ELSE IF c[1] = 34
       THEN Lexed(IF diags = <<>> THEN "Ok" ELSE "Fuzzy",
                  Token("Str", "", str, current_span(L1)), diags, L1)
       ELSE IF c[1] = 92
       THEN IF es = None THEN lex_str_loop(L2, str, diags)
            ELSE IF es[1] = 34 THEN lex_str_loop(L2, Append(str, 34), diags)
            ELSE lex_str_escaped(make_escape_sequence(L2, es[1]), str, diags)
       ELSE lex_str_loop(L1, Append(str, c[1]), diags)

\* lex_str, called with the opening quote popped
lex_str(L) == lex_str_loop(L, <<>>, <<>>)

\* lex_char: the literal does not end with a quote
lex_char_unterminated(LL) ==
    Lexed("Err", NoToken,
          <<struct_err("unterminated char literal", <<>>, current_span_end(LL))>>, LL)

\* the closing quote of a char literal
lex_char_close(LL, ch, diags) ==
    IF Lexer_peek(LL) = Some(39)
    THEN Lexed(IF diags = <<>> THEN "Ok" ELSE "Fuzzy",
               Token("Char", "", <<ch>>, current_span(Lexer_pop(LL))), diags, Lexer_pop(LL))
    ELSE lex_char_unterminated(LL)

\* a char literal that is an escape sequence
lex_char_escaped(r) ==
    IF r.panic THEN Lexed("panic", NoToken, <<>>, r.L)
    ELSE IF r.err THEN lex_char_close(r.L, 0, <<r.diag>>)
    ELSE lex_char_close(r.L, r.ch, <<>>)

\* lex_char, called with the opening quote popped
lex_char(L) ==
    LET c == Lexer_peek(L)
        L1 == Lexer_pop(L)
        es == Lexer_peek(L1)
        L2 == Lexer_pop(L1)
    IN IF c = None THEN lex_char_unterminated(L)
       ELSE IF c[1] = 92
       THEN IF es = None THEN lex_char_unterminated(L2)
            ELSE IF es[1] = 39 THEN lex_char_close(L2, 39, <<>>)
            ELSE lex_char_escaped(make_escape_sequence(L2, es[1]))
       ELSE lex_char_close(L1, c[1], <<>>)

RECURSIVE pop_times(_, _)
\* for _ in 0..n { self.pop(); }
pop_times(L, n) == IF n = 0 THEN L ELSE pop_times(Lexer_pop(L), n - 1)

\* lex(): the token that starts at the scalar ahead
lex_start(L) ==
    LET c == Lexer_peek(L)
        L1 == Lexer_pop(L)
        len == LexrFile_length(L.text)
        punct == could_make_punct(c[1], Lexer_peek(L1))
        L2 == pop_times(L1, Punctuation_size(punct) - 1)
    IN IF c = None
       THEN IF len = 0
            THEN {Lexed("panic", NoToken, <<>>, L1),
                  Lexed("Ok", Token("EOF", "", <<>>, Span_new(-1, len)), <<>>, L1)}
            ELSE {Lexed("Ok", Token("EOF", "", <<>>, Span_new(len - 1, len)), <<>>, L1)}
       ELSE IF IsWordStart(c[1]) THEN {lex_word(L1, c[1])}
       ELSE IF c[1] = 10 THEN {Lexed("Ok", Token("NewLine", "", <<>>, current_span(L1)), <<>>, L1)}
       ELSE IF c[1] = 34 THEN {lex_str(L1)}
       ELSE IF c[1] = 39 THEN {lex_char(L1)}
       ELSE IF punct # ""
       THEN {Lexed("Ok", Token("Punct", punct, <<>>, current_span(L2)), <<>>, L2)}
       ELSE {Lexed("Err", NoToken,
                   <<struct_err("unknown start of token", <<c[1]>>, current_span(L1))>>, L1)}

\* lex() once the whitespace and the comments are skipped
lex_skipped(s) ==
    IF s.hang THEN {Lexed("panic", NoToken, <<>>, s.L), Lexed("hang", NoToken, <<>>, s.L)}
    ELSE lex_start([s.L EXCEPT !.prev_idx = s.L.idx])

\* The outcomes of Lexer::lex.  A comment the text ends in makes
\* skip_comments pop for ever: idx overflows (a panic) in a build with
\* overflow checks and the loop never ends in one without.  On the empty
\* text len - 1 overflows usize at the end of the file: a panic, or the
\* wrapped usize::MAX as u32 = 2^32 - 1, which is written -1 (mod 2^32).
lex(L0) == lex_skipped(skip_comments(skip_useless_whitespace(L0)))

---------------------------------------------------------------------------
(* SpecLexer: successive calls of Lexer::lex on a text *)

\* the scalars of the exhaustive family of texts: a 1 _ space \n = # and
\* the no-break space U+00A0 (2 bytes)
Alphabet == {97, 49, 95, 32, 10, 61, 35, 160}

SmallTexts == UNION {[1..n -> Alphabet] : n \in 0..MaxTextLen}

\* one of ! = < > - alone or followed by one or two more scalars, at the
\* start of the text, after a letter, or after a no-break space
PunctTexts ==
    {pre \o <<c>> \o post :
        pre \in {<<>>, <<97>>, <<160>>},
        c \in {33, 61, 60, 62, 45},
        post \in {<<>>, <<61, 61>>} \cup {<<d>> : d \in {33, 61, 60, 62, 45, 97, 32}}}

\* every single-scalar punctuation
SinglePunctTexts ==
    {<<c>> : c \in {40, 41, 91, 93, 123, 125, 58, 59, 44, 64, 42, 94, 46, 45, 37, 43, 47}}

\* words, keywords and integers:
\*   abc fun return val var type true false
\*   pub
\*   if else pub fun
\*   iff
\*   _1
\*   _
\*   1_000
\*   1a
\*   a1
\*   007
\*   18446744073709551615
\*   18446744073709551616
\*   340282366920938463463374607431768211455
\*   18_446_744_073_709_551_615
\*   18446744073709551615 9
\*   1__2_
WordTexts ==
    {<<97, 98, 99, 32, 102, 117, 110, 32, 114, 101, 116, 117, 114, 110, 32, 118, 97, 108, 32, 118, 97, 114, 32, 116, 121, 112, 101, 32, 116, 114, 117, 101, 32, 102, 97, 108, 115, 101>>,
     <<112, 117, 98>>,
     <<105, 102, 32, 101, 108, 115, 101, 32, 112, 117, 98, 32, 102, 117, 110>>,
     <<105, 102, 102>>,
     <<95, 49>>,
     <<95>>,
     <<49, 95, 48, 48, 48>>,
     <<49, 97>>,
     <<97, 49>>,
     <<48, 48, 55>>,
     <<49, 56, 52, 52, 54, 55, 52, 52, 48, 55, 51, 55, 48, 57, 53, 53, 49, 54, 49, 53>>,
     <<49, 56, 52, 52, 54, 55, 52, 52, 48, 55, 51, 55, 48, 57, 53, 53, 49, 54, 49, 54>>,
     <<51, 52, 48, 50, 56, 50, 51, 54, 54, 57, 50, 48, 57, 51, 56, 52, 54, 51, 52, 54, 51, 51, 55, 52, 54, 48, 55, 52, 51, 49, 55, 54, 56, 50, 49, 49, 52, 53, 53>>,
     <<49, 56, 95, 52, 52, 54, 95, 55, 52, 52, 95, 48, 55, 51, 95, 55, 48, 57, 95, 53, 53, 49, 95, 54, 49, 53>>,
     <<49, 56, 52, 52, 54, 55, 52, 52, 48, 55, 51, 55, 48, 57, 53, 53, 49, 54, 49, 53, 32, 57>>,
     <<49, 95, 95, 50, 95>>}

\* strings, chars, comments and other scalars:
\*   "ab"
\*   "a\\n\\t\\0\\r"
\*   "\\x41"
\*   "\\x4_"
\*   "\\xg1"
\*   "\\x-1"
\*   "\\xé1"
\*   "\\q"
\*   "\\u"
\*   "a\\"b"
\*   "ab
\*   "\\
\*   "\\x4
\*   "é" =
\*   'a'
\*   '\\n' a
\*   'ab'
\*   '
\*   a # c\n b
\*   # c
\*   a #
\*   \t
\*   é
\*   a\u2028b
\*   a\r\n\r\nb
StringTexts ==
    {<<34, 97, 98, 34>>,
     <<34, 97, 92, 110, 92, 116, 92, 48, 92, 114, 34>>,
     <<34, 92, 120, 52, 49, 34>>,
     <<34, 92, 120, 52, 95, 34>>,
     <<34, 92, 120, 103, 49, 34>>,
     <<34, 92, 120, 45, 49, 34>>,
     <<34, 92, 120, 233, 49, 34>>,
     <<34, 92, 113, 34>>,
     <<34, 92, 117, 34>>,
     <<34, 97, 92, 34, 98, 34>>,
     <<34, 97, 98>>,
     <<34, 92>>,
     <<34, 92, 120, 52>>,
     <<34, 233, 34, 32, 61>>,
     <<39, 97, 39>>,
     <<39, 92, 110, 39, 32, 97>>,
     <<39, 97, 98, 39>>,
     <<39>>,
     <<97, 32, 35, 32, 99, 10, 32, 98>>,
     <<35, 32, 99>>,
     <<97, 32, 35>>,
     <<9>>,
     <<233>>,
     <<97, 8232, 98>>,
     <<97, 13, 10, 13, 10, 98>>}

Texts == SmallTexts \cup PunctTexts \cup SinglePunctTexts \cup WordTexts \cup StringTexts

\* the fields of a lexer an entry of the history keeps
Cursor(L) == [it |-> L.it, idx |-> L.idx, prev_idx |-> L.prev_idx, file_idx |-> L.file_idx]

\* the number of lex() calls so far that returned the EOF token
EOFs == Cardinality({i \in 1..Len(lexed) : lexed[i].tok.tt = "EOF"})

InitLexer ==
    /\ NoVM /\ NoDynInt /\ NoParser /\ NoSymbolTable
    /\ \E text \in Texts : lexer = Lexer_new(text)
    /\ lexed = <<>>
    /\ lx_status = "ok"
    /\ tokbuf = <<>> /\ emitted = <<>> /\ blcalls = <<>>

\* one call of lex()
Lexer_lex ==
    /\ lx_status = "ok"
    /\ EOFs < MaxEOFs
    /\ \E o \in lex(lexer) :
          /\ lexer' = o.L
          /\ lexed' = Append(lexed, [kind |-> o.kind, tok |-> o.tok, diags |-> o.diags,
                                     before |-> Cursor(lexer), after |-> Cursor(o.L)])
          /\ lx_status' = IF o.kind \in {"panic", "hang"} THEN o.kind ELSE "ok"
    /\ UNCHANGED <<tokbuf, emitted, blcalls>>
    /\ UNCHANGED outside_lx

NextLexer == Lexer_lex

SpecLexer == InitLexer /\ [][NextLexer]_vars

---------------------------------------------------------------------------
\* Claims about Lexer::lex, over the history `lexed` of one lexer

\* the calls of lex() that returned the EndOfFile token
EOFCalls == {i \in 1..Len(lexed) : lexed[i].kind = "Ok" /\ lexed[i].tok.tt = "EOF"}

\* the span of the last byte of the text
LastByte(text) == Span_new(str_len(text) - 1, str_len(text))

\* C14: after lex() has returned EndOfFile for the first time, every later
\* call returns EndOfFile again with the same span, and that span is the
\* last byte position of the input.
C14_EOFLastByte ==
    \A i \in EOFCalls :
        /\ lexed[i].tok.lo = LastByte(lexer.text).lo
        /\ lexed[i].tok.hi = LastByte(lexer.text).hi
        /\ \A j \in (i + 1)..Len(lexed) :
              /\ j \in EOFCalls
              /\ lexed[j].tok.lo = lexed[i].tok.lo
              /\ lexed[j].tok.hi = lexed[i].tok.hi

\* what the code does for a text that is not empty: the EndOfFile token is
\* repeated with one span, which is the position of the last scalar,
\* (chars - 1, chars)
C14_CodeBehaviour ==
    \A i \in EOFCalls :
        lexer.text = <<>> \/
        /\ lexed[i].tok.lo = LexrFile_length(lexer.text) - 1
        /\ lexed[i].tok.hi = LexrFile_length(lexer.text)
        /\ \A j \in (i + 1)..Len(lexed) :
              /\ j \in EOFCalls
              /\ lexed[j].tok.lo = lexed[i].tok.lo
              /\ lexed[j].tok.hi = lexed[i].tok.hi

\* EndOfFile returned twice for a text that ends with a two-byte scalar
C14_Witness ==
    /\ Cardinality(EOFCalls) >= 2
    /\ lexer.text # <<>>
    /\ lexer.text[Len(lexer.text)] = 160

\* the lexer before call i of the history
LexerBefore(i) ==
    [text |-> lexer.text, it |-> lexed[i].before.it, idx |-> lexed[i].before.idx,
     prev_idx |-> lexed[i].before.prev_idx, file_idx |-> lexed[i].before.file_idx]

\* the number of scalars before the token of call i: those of the earlier
\* calls and the whitespace and comments call i skips
TokenStart(i) == skip_comments(skip_useless_whitespace(LexerBefore(i))).L.it

\* the number of scalars before the end of the token of call i
TokenEnd(i) == lexed[i].after.it

\* every call so far returned Fuzzy::Ok
LexedWithoutError == \A i \in 1..Len(lexed) : lexed[i].kind = "Ok"

\* the calls up to the first one that returned EndOfFile
FirstPass == {i \in 1..Len(lexed) : \A j \in EOFCalls : i <= j}

\* C15: for an input lexed without error the spans of all tokens, NewLine
\* and EndOfFile included, are byte-offset ranges: the span of a token is
\* the byte range of its scalars, so that the spans are in increasing order
\* without overlap and, with the skipped whitespace and comments between
\* them, cover [0, |text|) in bytes, the span of EndOfFile ending at |text|.
C15_ByteSpans ==
    LexedWithoutError =>
        \A i \in FirstPass :
            /\ i \notin EOFCalls =>
                  /\ lexed[i].tok.lo = char_index(lexer.text, TokenStart(i))
                  /\ lexed[i].tok.hi = char_index(lexer.text, TokenEnd(i))
            /\ i \in EOFCalls => lexed[i].tok.hi = str_len(lexer.text)
            /\ 0 <= lexed[i].tok.lo /\ lexed[i].tok.lo < lexed[i].tok.hi
            /\ i > 1 => lexed[i - 1].tok.hi <= lexed[i].tok.lo

\* what the code does: the span of a token other than EndOfFile is the range
\* of its scalars counted in scalars, not in bytes
C15_CodeBehaviour ==
    LexedWithoutError =>
        \A i \in FirstPass \ EOFCalls :
            /\ lexed[i].tok.lo = TokenStart(i)
            /\ lexed[i].tok.hi = TokenEnd(i)
            /\ i > 1 => lexed[i - 1].tok.hi <= lexed[i].tok.lo

\* a token lexed after a two-byte scalar that was skipped
C15_MultiByteReached ==
    /\ LexedWithoutError
    /\ \E i \in FirstPass \ EOFCalls :
          /\ TokenStart(i) > 0
          /\ char_index(lexer.text, TokenStart(i)) > TokenStart(i)

IsWordChar(c) == IsLetter(c) \/ IsDigit(c) \/ c = 95

RECURSIVE WordRun(_, _)
\* the maximal run of letters, digits and underscores of a text after its
\* first k scalars
WordRun(text, k) ==
    IF k < Len(text) /\ IsWordChar(text[k + 1])
    THEN <<text[k + 1]>> \o WordRun(text, k + 1)
    ELSE <<>>

\* the calls of the first pass whose token starts with a letter, an
\* underscore or a digit
WordCalls ==
    {i \in FirstPass : /\ lexed[i].kind \notin {"panic", "hang"}
                       /\ WordRun(lexer.text, TokenStart(i)) # <<>>}

\* the keywords of the language: those of Keyword::from_str, and pub
Pub == <<112, 117, 98>>

\* the sentence abc fun return val var type true false
Sentence ==
    <<97, 98, 99, 32, 102, 117, 110, 32, 114, 101, 116, 117, 114, 110, 32, 118, 97, 108, 32,
      118, 97, 114, 32, 116, 121, 112, 101, 32, 116, 114, 117, 101, 32, 102, 97, 108, 115, 101>>

\* the kinds and words of the tokens lexed so far
TokenWords == [i \in 1..Len(lexed) |-> <<lexed[i].tok.tt, lexed[i].tok.val>>]

SentenceTokens ==
    <<<<"Ident", <<97, 98, 99>>>>, <<"KW", <<102, 117, 110>>>>,
      <<"KW", <<114, 101, 116, 117, 114, 110>>>>, <<"KW", <<118, 97, 108>>>>,
      <<"KW", <<118, 97, 114>>>>, <<"KW", <<116, 121, 112, 101>>>>,
      <<"KW", <<116, 114, 117, 101>>>>, <<"KW", <<102, 97, 108, 115, 101>>>>,
      <<"EOF", <<>>>>>>

\* C16: a maximal run that starts with a letter, underscore or digit and
\* continues with letters, digits or underscores is lexed as one token: an
\* Int if the run has no letters (or the integer error of the literal), else
\* a Keyword if it is one of fun, return, val, var, type, true, false, if,
\* else, pub, else an Ident; "abc fun return val var type true false" lexes
\* to Ident(abc), the seven keywords in order, then EndOfFile.
C16_Words ==
    /\ \A i \in WordCalls :
          LET run == WordRun(lexer.text, TokenStart(i))
          IN /\ TokenEnd(i) = TokenStart(i) + Len(run)
             /\ IF \A k \in 1..Len(run) : ~IsLetter(run[k])
                THEN \/ lexed[i].kind = "Ok" /\ lexed[i].tok.tt = "Int"
                     \/ lexed[i].kind = "Err"
                ELSE IF run \in Keywords \cup {Pub}
                THEN lexed[i].kind = "Ok" /\ lexed[i].tok.tt = "KW" /\ lexed[i].tok.val = run
                ELSE lexed[i].kind = "Ok" /\ lexed[i].tok.tt = "Ident" /\ lexed[i].tok.val = run
    /\ lexer.text = Sentence /\ Len(lexed) >= 9 => SubSeq(TokenWords, 1, 9) = SentenceTokens

\* what the code does: pub is an Ident, and a run is an Int when it starts
\* with a digit and has no letters
C16_CodeBehaviour ==
    /\ \A i \in WordCalls :
          LET run == WordRun(lexer.text, TokenStart(i))
          IN /\ TokenEnd(i) = TokenStart(i) + Len(run)
             /\ IF IsDigit(run[1]) /\ \A k \in 1..Len(run) : ~IsLetter(run[k])
                THEN \/ lexed[i].kind = "Ok" /\ lexed[i].tok.tt = "Int"
                     \/ lexed[i].kind = "Err"
                ELSE IF run \in Keywords
                THEN lexed[i].kind = "Ok" /\ lexed[i].tok.tt = "KW" /\ lexed[i].tok.val = run
                ELSE lexed[i].kind = "Ok" /\ lexed[i].tok.tt = "Ident" /\ lexed[i].tok.val = run
    /\ lexer.text = Sentence /\ Len(lexed) >= 9 => SubSeq(TokenWords, 1, 9) = SentenceTokens

\* the sentence was lexed to its end
C16_SentenceLexed == lexer.text = Sentence /\ Len(lexed) >= 9

\* the word pub was lexed
C16_PubLexed ==
    \E i \in WordCalls : WordRun(lexer.text, TokenStart(i)) = Pub /\ lexed[i].tok.tt = "Ident"

\* the decimal digits of a run of digits and underscores, underscores left out
RECURSIVE DigitsOf(_)
DigitsOf(run) ==
    IF run = <<>> THEN <<>>
    ELSE IF run[1] = 95 THEN DigitsOf(Tail(run))
    ELSE <<run[1] - 48>> \o DigitsOf(Tail(run))

RECURSIVE StripZeros(_)
StripZeros(ds) == IF ds # <<>> /\ ds[1] = 0 THEN StripZeros(Tail(ds)) ELSE ds

RECURSIVE DigitsGreater(_, _)
\* of two digit sequences of one length, the first is the greater number
DigitsGreater(a, b) ==
    /\ a # <<>>
    /\ \/ a[1] > b[1]
       \/ a[1] = b[1] /\ DigitsGreater(Tail(a), Tail(b))

\* the digits of 2^64 - 1 = 18446744073709551615
MaxU64Digits == <<1, 8, 4, 4, 6, 7, 4, 4, 0, 7, 3, 7, 0, 9, 5, 5, 1, 6, 1, 5>>

\* the number written with the digits ds exceeds 2^64 - 1
ExceedsU64(ds) ==
    LET s == StripZeros(ds)
    IN \/ Len(s) > Len(MaxU64Digits)
       \/ Len(s) = Len(MaxU64Digits) /\ DigitsGreater(s, MaxU64Digits)

\* the calls of the first pass on a decimal literal: a run of digits and
\* underscores that starts with a digit
IntCalls ==
    {i \in WordCalls :
        LET run == WordRun(lexer.text, TokenStart(i))
        IN IsDigit(run[1]) /\ \A k \in 1..Len(run) : IsDigit(run[k]) \/ run[k] = 95}

\* C17: a decimal literal whose value exceeds 2^64 - 1 makes lex() return a
\* single Err with the diagnostic of the integer overflow and never a
\* wrapped value; a literal whose value is at most 2^64 - 1 gives Int with
\* exactly that value, the underscores being ignored.
C17_IntLiterals ==
    \A i \in IntCalls :
        LET ds == DigitsOf(WordRun(lexer.text, TokenStart(i)))
        IN IF ExceedsU64(ds)
           THEN /\ lexed[i].kind = "Err"
                /\ Len(lexed[i].diags) = 1
                /\ lexed[i].diags[1].msg = "integer literal is too large"
                /\ lexed[i].tok = NoToken
           ELSE /\ lexed[i].kind = "Ok"
                /\ lexed[i].diags = <<>>
                /\ lexed[i].tok.tt = "Int"
                /\ lexed[i].tok.val = Dec(ds)

\* 2^128 - 1 was lexed: one Err, the literal is too large
C17_Witness ==
    /\ 1 \in IntCalls
    /\ Len(DigitsOf(WordRun(lexer.text, 0))) = 39
    /\ lexed[1].kind = "Err"
    /\ lexed[1].diags[1].msg = "integer literal is too large"

\* 18_446_744_073_709_551_615 was lexed: Int(2^64 - 1)
C17_WitnessMax ==
    /\ 1 \in IntCalls
    /\ Len(WordRun(lexer.text, 0)) = 26
    /\ lexed[1].tok.tt = "Int"
    /\ lexed[1].tok.val = [k \in 1..8 |-> 255]

\* the scalars ! = < > - a token of one or two scalars starts with
Ambiguous == {33, 61, 60, 62, 45}

\* the calls of the first pass whose token starts with one of ! = < > -
PunctCalls ==
    {i \in FirstPass : /\ lexed[i].kind \notin {"panic", "hang"}
                       /\ TokenStart(i) < Len(lexer.text)
                       /\ lexer.text[TokenStart(i) + 1] \in Ambiguous}

\* the scalar after the first one of the token of call i
NextChar(i) ==
    IF TokenStart(i) + 1 < Len(lexer.text) THEN Some(lexer.text[TokenStart(i) + 2]) ELSE None

\* the token that starts with c when next follows: != == << <= >> >= ->
\* when next completes one, else ! = < > -
Expected(c, next) ==
    CASE c = 33 -> IF next = Some(61) THEN "ExclamationmarkEqual" ELSE "Exclamationmark"
      [] c = 61 -> IF next = Some(61) THEN "Equal2" ELSE "Equal"
      [] c = 60 -> IF next = Some(60) THEN "LArrow2"
                   ELSE IF next = Some(61) THEN "LArrowEqual" ELSE "LArrow"
      [] c = 62 -> IF next = Some(62) THEN "RArrow2"
                   ELSE IF next = Some(61) THEN "RArrowEqual" ELSE "RArrow"
      [] c = 45 -> IF next = Some(62) THEN "ThinRArrow" ELSE "Minus"

\* the width of a token in scalars
Width(name) ==
    IF name \in {"ExclamationmarkEqual", "Equal2", "LArrow2", "LArrowEqual", "RArrow2",
                 "RArrowEqual", "ThinRArrow"}
    THEN 2 ELSE 1

\* call i returned the punctuation name, the cursor advanced by its width w
\* from prev and the span is [prev, prev + w)
Lexes(i, name) ==
    LET prev == lexed[i].after.prev_idx
        w == Width(name)
    IN /\ lexed[i].kind = "Ok"
       /\ lexed[i].tok.tt = "Punct"
       /\ lexed[i].tok.name = name
       /\ TokenEnd(i) = TokenStart(i) + w
       /\ lexed[i].after.idx = prev + w
       /\ lexed[i].tok.lo = prev
       /\ lexed[i].tok.hi = prev + w

\* C18: for each of ! = < > - the lexer looks one character ahead and
\* returns the two-character token (!=, ==, <<, <=, >>, >=, ->) when the
\* next character completes one and the one-character token otherwise; on
\* a match of width w the cursor has advanced by exactly w and the span of
\* the token is [prev, prev + w).
C18_Lookahead ==
    \A i \in PunctCalls :
        Lexes(i, Expected(lexer.text[TokenStart(i) + 1], NextChar(i)))

\* what the code does: as claimed for ! = < >, and - is always Minus
C18_CodeBehaviour ==
    \A i \in PunctCalls :
        LET c == lexer.text[TokenStart(i) + 1]
        IN Lexes(i, IF c = 45 THEN "Minus" ELSE Expected(c, NextChar(i)))

\* a - followed by > was lexed
C18_ArrowReached ==
    \E i \in PunctCalls :
        lexer.text[TokenStart(i) + 1] = 45 /\ NextChar(i) = Some(62) /\ lexed[i].tok.name = "Minus"

---------------------------------------------------------------------------
\* BufferedLexer (abs.rs): the inner lexer L, the buffer buf of pre-lexed
\* tokens, the diagnostics emitted so far, and st = "ok", or "panic" or
\* "hang" when a call of lex() did not return

BufferedLexer_new(L) == [L |-> L, buf |-> <<>>, diags |-> <<>>, st |-> "ok"]

\* AbsLexer for Lexer: finished
Lexer_finished(L) == L.idx > str_len(L.text)

\* BufferedLexer: finished
finished(B) == Lexer_finished(B.L) /\ B.buf = <<>>

\* AbsLexer for Lexer: consume, the set of [B, ret] it can leave
Lexer_consume(B) ==
    {IF o.kind \in {"panic", "hang"} THEN [B |-> [B EXCEPT !.st = o.kind], ret |-> None]
     ELSE [B |-> [B EXCEPT !.L = o.L, !.diags = B.diags \o o.diags],
           ret |-> IF o.kind = "Err" THEN None ELSE Some(o.tok)] :
     o \in lex(B.L)}

RECURSIVE pre_lex_loop(_, _, _)
\* for _ in 1..=amount of pre_lex, n calls of lex() left: the set of
\* [B, inner_diags] it can leave
pre_lex_loop(B, inner_diags, n) ==
    IF n = 0 THEN {[B |-> B, inner_diags |-> inner_diags]}
    ELSE UNION
        {IF o.kind \in {"panic", "hang"}
         THEN {[B |-> [B EXCEPT !.st = o.kind], inner_diags |-> inner_diags]}
         ELSE IF o.kind = "Err"
         THEN pre_lex_loop([B EXCEPT !.L = o.L], inner_diags \o o.diags, n - 1)
         ELSE LET B1 == [B EXCEPT !.L = o.L, !.buf = Append(B.buf, o.tok)]
              IN IF o.tok.tt = "EOF"
                 THEN {[B |-> B1, inner_diags |-> inner_diags \o o.diags]}
                 ELSE pre_lex_loop(B1, inner_diags \o o.diags, n - 1) :
         o \in lex(B.L)}

\* BufferedLexer::pre_lex
pre_lex(B, amount) == pre_lex_loop(B, <<>>, amount)

\* BufferedLexer: consume
consume(B) ==
    IF finished(B) THEN {[B |-> B, ret |-> None]}
    ELSE IF B.buf = <<>> THEN Lexer_consume(B)
    ELSE {[B |-> [B EXCEPT !.buf = Tail(B.buf)], ret |-> Some(Head(B.buf))]}

RECURSIVE peek_nth_loop(_, _, _, _)
\* the loop of peek_nth: the set of B it can leave
peek_nth_loop(B, amount, lexed_before, initial_len) ==
    UNION
        {LET B1 == [r.B EXCEPT !.diags = r.B.diags \o r.inner_diags]
             lexed_now == lexed_before + (Len(B1.buf) - initial_len)
         IN IF B1.st # "ok" THEN {B1}
            ELSE IF lexed_now >= amount \/ finished(B1) THEN {B1}
            ELSE peek_nth_loop(B1, amount, lexed_now, initial_len) :
         r \in pre_lex(B, amount)}

\* self.buf.get(idx)
buf_get(buf, idx) == IF idx + 1 <= Len(buf) THEN Some(buf[idx + 1]) ELSE None

\* BufferedLexer: peek_nth
peek_nth(B, idx) ==
    IF finished(B) THEN {[B |-> B, ret |-> None]}
    ELSE IF idx + 1 > Len(B.buf)
    THEN {[B |-> B1, ret |-> IF B1.st = "ok" THEN buf_get(B1.buf, idx) ELSE None] :
          B1 \in peek_nth_loop(B, idx - Len(B.buf) + 1, 0, Len(B.buf))}
    ELSE {[B |-> B, ret |-> buf_get(B.buf, idx)]}

\* AbsLexer::peek
peek(B) == peek_nth(B, 0)

\* the BufferedLexer of the state
CurrentB == [L |-> lexer, buf |-> tokbuf, diags |-> emitted, st |-> lx_status]

\* the texts given to a BufferedLexer:
\*   a        a b        a b c       a = 1\n b
\*   a$$b$$c  $a         a$          a b $
\*   a\u{00A0}
BufferedTexts ==
    {<<97>>,
     <<97, 160>>,
     <<97, 32, 98>>,
     <<97, 32, 98, 32, 99>>,
     <<97, 32, 61, 32, 49, 10, 32, 98>>,
     <<97, 36, 36, 98, 36, 36, 99>>,
     <<36, 97>>,
     <<97, 36>>,
     <<97, 32, 98, 32, 36>>}

InitBuffered ==
    /\ NoVM /\ NoDynInt /\ NoParser /\ NoSymbolTable
    /\ \E text \in BufferedTexts : lexer = Lexer_new(text)
    /\ lexed = <<>>
    /\ lx_status = "ok"
    /\ tokbuf = <<>> /\ emitted = <<>> /\ blcalls = <<>>

\* a call left the BufferedLexer r.B and returned r.ret
Returns(op, idx, r) ==
    /\ lexer' = r.B.L
    /\ tokbuf' = r.B.buf
    /\ emitted' = r.B.diags
    /\ lx_status' = r.B.st
    /\ blcalls' = Append(blcalls, [op |-> op, idx |-> idx, ret |-> r.ret])
    /\ UNCHANGED lexed
    /\ UNCHANGED outside_lx

BufferedLexer_consume ==
    /\ lx_status = "ok" /\ Len(blcalls) < MaxBLCalls
    /\ \E r \in consume(CurrentB) : Returns("consume", 0, r)

BufferedLexer_peek ==
    /\ lx_status = "ok" /\ Len(blcalls) < MaxBLCalls
    /\ \E r \in peek(CurrentB) : Returns("peek", 0, r)

BufferedLexer_peek_nth ==
    /\ lx_status = "ok" /\ Len(blcalls) < MaxBLCalls
    /\ \E idx \in 0..MaxPeek : \E r \in peek_nth(CurrentB, idx) : Returns("peek_nth", idx, r)

NextBuffered == BufferedLexer_consume \/ BufferedLexer_peek \/ BufferedLexer_peek_nth

SpecBuffered == InitBuffered /\ [][NextBuffered]_vars

RECURSIVE Unbuffered(_)
\* the tokens consume() returns, call after call until finished(), when the
\* lexer is never peeked
Unbuffered(B) ==
    IF finished(B) \/ B.st # "ok" THEN <<>>
    ELSE LET r == CHOOSE r \in consume(B) : TRUE
         IN r.ret \o Unbuffered(r.B)

\* the tokens the inner lexer produces for the text
InnerTokens == Unbuffered(BufferedLexer_new(Lexer_new(lexer.text)))

RECURSIVE Returned(_, _)
\* the tokens the first n calls returned from consume()
Returned(calls_, n) ==
    IF n = 0 THEN <<>>
    ELSE Returned(calls_, n - 1) \o
         (IF calls_[n].op = "consume" THEN calls_[n].ret ELSE <<>>)

\* C19: for any interleaving of peek(), peek_nth(i) and consume() calls,
\* peeking never drops, duplicates or reorders tokens: the tokens consume()
\* returns are, in order, the tokens the inner lexer produces, and
\* peek_nth(i) returns the token the (i+1)-th following consume() returns,
\* None only when fewer than i+1 tokens remain.
C19_PeekTransparent ==
    LET toks == InnerTokens
        got == Returned(blcalls, Len(blcalls))
    IN /\ Len(got) <= Len(toks)
       /\ got = SubSeq(toks, 1, Len(got))
       /\ \A k \in 1..Len(blcalls) :
             blcalls[k].op \in {"peek", "peek_nth"} =>
                LET pos == Len(Returned(blcalls, k - 1)) + blcalls[k].idx + 1
                IN blcalls[k].ret = IF pos <= Len(toks) THEN Some(toks[pos]) ELSE None

\* what the code does: the claim holds as long as no index but 0 is peeked
C19_CodeBehaviour ==
    (\A k \in 1..Len(blcalls) : blcalls[k].idx = 0) => C19_PeekTransparent

\* a peek_nth past the end of file left EndOfFile twice in the buffer
C19_PeekPastEOF ==
    /\ Len(blcalls) >= 2
    /\ blcalls[1].op = "peek_nth"
    /\ Len(tokbuf) >= 2 /\ tokbuf[1].tt = "EOF" /\ tokbuf[2].tt = "EOF"

---------------------------------------------------------------------------
\* Part 3: the parser (rosac_parser).  A Parser P holds the BufferedLexer B,
\* current_precedence, the indent stack, and two things the program does not
\* hold: checks, whether the build has overflow checks (it decides what an
\* integer overflow does: a panic, or the wrapped value), and blocks, the
\* record of the calls of Block::parse that returned.

\* the outcome of a call of the BufferedLexer in the build of the parser
InBuild(outcomes, checks) ==
    IF Cardinality(outcomes) = 1 THEN CHOOSE r \in outcomes : TRUE
    ELSE IF checks THEN CHOOSE r \in outcomes : r.B.st = "panic"
    ELSE CHOOSE r \in outcomes : r.B.st # "panic"

\* Parser::new
Parser_new(B, checks) ==
    [B |-> B, prec |-> 0, indent |-> <<0>>, checks |-> checks, blocks |-> <<>>]

\* what a call of the BufferedLexer returned, and the parser it leaves: [P, ret]
Tok(P, r) == [P |-> [P EXCEPT !.B = r.B], ret |-> r.ret]

\* Parser::consume_tok: [P, ret]
consume_tok(P) == Tok(P, InBuild(consume(P.B), P.checks))

\* Parser::nth_tok: [P, ret]
nth_tok(P, idx) == Tok(P, InBuild(peek_nth(P.B, idx), P.checks))

\* Parser::try_peek_tok
try_peek_tok(P) == nth_tok(P, 0)

\* Option::unwrap of a token: a panic on None
unwrap(r) == IF r.ret = None /\ r.P.B.st = "ok" THEN [r EXCEPT !.P.B.st = "panic"] ELSE r

\* Parser::peek_tok
peek_tok(P) == unwrap(try_peek_tok(P))

\* the parser can go on: no call has panicked or hung
Alive(P) == P.B.st = "ok"

\* Parser::indent, Parser::dedent, Parser::last_indent
indent(P, size) == [P EXCEPT !.indent = Append(P.indent, size)]

dedent(P) ==
    IF P.indent = <<>> THEN P ELSE [P EXCEPT !.indent = SubSeq(P.indent, 1, Len(P.indent) - 1)]

last_indent(P) == IF P.indent = <<>> THEN None ELSE Some(P.indent[Len(P.indent)])

\* a < b as u32, a value of 2^31 or more being written as a negative number
BytePos_lt(a, b) ==
    \/ a >= 0 /\ b >= 0 /\ a < b
    \/ a >= 0 /\ b < 0
    \/ a < 0 /\ b < 0 /\ a < b

\* BytePos - BytePos, a subtraction of u32: [panic, val].  It overflows when
\* a < b: a panic in a build with overflow checks, a - b + 2^32 in one
\* without (written a - b)
BytePos_sub(a, b, checks) ==
    [panic |-> checks /\ BytePos_lt(a, b), val |-> a - b]

RECURSIVE compute_indent_loop(_, _, _, _)
\* the while loop of compute_indent, the token nth_tok(idx) gave:
\* [P, idx, ws, panic]
compute_indent_line(P, lf, idx, ws, r) ==
    LET d == BytePos_sub(r.ret[1].hi, lf.hi, P.checks)
    IN IF ~Alive(r.P) THEN [P |-> r.P, idx |-> idx, ws |-> ws, panic |-> TRUE]
       ELSE IF r.ret # None /\ r.ret[1].tt = "NewLine"
       THEN IF d.panic
            THEN [P |-> [r.P EXCEPT !.B.st = "panic"], idx |-> idx, ws |-> ws, panic |-> TRUE]
            ELSE compute_indent_loop(r.P, lf, idx + 1, d.val)
       ELSE [P |-> r.P, idx |-> idx, ws |-> ws, panic |-> FALSE]

\* compute_indent: while let Some(Token { tt: NewLine, loc }) = self.nth_tok(idx)
compute_indent_loop(P, lf, idx, ws) == compute_indent_line(P, lf, idx, ws, nth_tok(P, idx))

\* compute_indent returns None
no_indent(PP) == [P |-> PP, some |-> FALSE, gap |-> 0, til_next |-> 0]

\* compute_indent: the gap before the token nth_tok(idx) gives after the loop
compute_indent_gap(P, lf, w, n) ==
    LET d1 == BytePos_sub(n.ret[1].lo, lf.hi, P.checks)
        d2 == BytePos_sub(d1.val, w.ws, P.checks)
    IN IF ~Alive(n.P) \/ n.ret = None THEN no_indent(n.P)
       ELSE IF d1.panic \/ d2.panic THEN no_indent([n.P EXCEPT !.B.st = "panic"])
       ELSE [P |-> n.P, some |-> TRUE, gap |-> d2.val, til_next |-> w.idx]

\* compute_indent: after the loop
compute_indent_lines(P, lf, w) ==
    IF w.panic THEN no_indent(w.P) ELSE compute_indent_gap(P, lf, w, nth_tok(w.P, w.idx))

\* compute_indent: after let lf = self.try_peek_tok()?.clone()
compute_indent_lf(P, r0) ==
    IF ~Alive(r0.P) \/ r0.ret = None THEN no_indent(r0.P)
    ELSE compute_indent_lines(P, r0.ret[1], compute_indent_loop(r0.P, r0.ret[1], 1, 0))

\* Parser::compute_indent: [P, some, gap, til_next], some = FALSE for None
compute_indent(P) == compute_indent_lf(P, try_peek_tok(P))
\* an AST node: Expression, Statement or Block, with its span
Node(node, op, val, kids, loc) ==
    [node |-> node, op |-> op, val |-> val, kids |-> kids, lo |-> loc.lo, hi |-> loc.hi]

NoNode == Node("none", "", <<>>, <<>>, Span_new(0, 0))

NoDiag == struct_err("", <<>>, Span_new(0, 0))

\* Fuzzy<_, Diag> returned by a parsing function and the parser it leaves;
\* kind is "Ok" or "Err", or "panic" or "hang" when it does not return
Parsed(kind, P, node, diag) == [kind |-> kind, P |-> P, node |-> node, diag |-> diag]

\* a call of the lexer panicked or hung
Stop(P) == Parsed(P.B.st, P, NoNode, NoDiag)

\* a panic of the parser itself
Panic(P) == Parsed("panic", [P EXCEPT !.B.st = "panic"], NoNode, NoDiag)

\* the span of a node
loc_of(n) == Span_new(n.lo, n.hi)

\* Span::from_ends
Span_from_ends(a, b) == Span_new(a.lo, b.hi)

\* BinaryOp::from_punct, "" for None
BinaryOp_from_punct(punct) ==
    CASE punct = "Asterisk" -> "Mul"
      [] punct = "Slash" -> "Div"
      [] punct = "Percent" -> "Rem"
      [] punct = "Plus" -> "Add"
      [] punct = "Minus" -> "Sub"
      [] punct = "RArrow2" -> "RShift"
      [] punct = "LArrow2" -> "LShift"
      [] punct = "LArrow" -> "CompLT"
      [] punct = "RArrow" -> "CompGT"
      [] punct = "LArrowEqual" -> "CompLTE"
      [] punct = "RArrowEqual" -> "CompGTE"
      [] punct = "Equal2" -> "CompEq"
      [] punct = "ExclamationmarkEqual" -> "CompNe"
      [] OTHER -> ""

\* UnaryOp::from_punct, "" for None; both operators are left ones
UnaryOp_from_punct(punct) ==
    CASE punct = "Minus" -> "Negation"
      [] punct = "Exclamationmark" -> "Not"
      [] OTHER -> ""

\* PRECEDENCE_TABLE: the precedence of the operators it holds, all of them
\* LeftToRight
PRECEDENCE_TABLE ==
    [Mul |-> 7, Div |-> 7, Rem |-> 7, Add |-> 6, Sub |-> 6, RShift |-> 5, LShift |-> 5,
     CompLT |-> 4, CompGT |-> 4, CompLTE |-> 4, CompEq |-> 3, CompNe |-> 3]

\* operator_precedence: [panic, prec]; expect() panics for an operator the
\* table does not hold
operator_precedence(op) ==
    IF op \in DOMAIN PRECEDENCE_TABLE
    THEN [panic |-> FALSE, prec |-> PRECEDENCE_TABLE[op]]
    ELSE [panic |-> TRUE, prec |-> 0]

\* the token is a punctuation that is a binary operator
IsBinaryPunct(tok) == tok.tt = "Punct" /\ BinaryOp_from_punct(tok.name) # ""

RECURSIVE Expression_parse(_)
RECURSIVE Expression_loop(_, _, _)
RECURSIVE ExpressionInner_parse(_)
RECURSIVE parse_binary_expr(_, _, _)
RECURSIVE parse_binary_rhs(_, _, _)
RECURSIVE parse_left_unary_expr(_)

\* parse_intlit_expr: the token consumed
parse_intlit_expr_lit(c) ==
    IF ~Alive(c.P) THEN Stop(c.P)
    ELSE IF c.ret = None THEN Panic(c.P)
    ELSE Parsed("Ok", c.P, Node("IntLiteral", "", c.ret[1].val, <<>>, loc_of(c.ret[1])),
                NoDiag)

\* parse_intlit_expr: match parser.peek_tok() { .. }
parse_intlit_expr_tok(p) ==
    IF ~Alive(p.P) THEN Stop(p.P)
    ELSE IF p.ret[1].tt # "Int"
    THEN Parsed("Err", p.P, NoNode,
                struct_err("expected integer literal", <<>>, loc_of(p.ret[1])))
    ELSE parse_intlit_expr_lit(consume_tok(p.P))

\* parse_intlit_expr
parse_intlit_expr(P) == parse_intlit_expr_tok(peek_tok(P))

\* ExpressionInner::parse: match parser.peek_tok() { .. }
ExpressionInner_parse_tok(p) ==
    IF ~Alive(p.P) THEN Stop(p.P)
    ELSE LET t == p.ret[1]
         IN IF t.tt = "Int" THEN parse_intlit_expr(p.P)
            ELSE IF t.tt = "Punct" /\ UnaryOp_from_punct(t.name) # ""
            THEN parse_left_unary_expr(p.P)
            ELSE Parsed("Err", p.P, NoNode,
                        struct_err("expected expression", <<>>, loc_of(t)))

\* ExpressionInner::parse
ExpressionInner_parse(P) == ExpressionInner_parse_tok(peek_tok(P))

\* Expression::parse: after let mut lhs = parse!(parser => ExpressionInner)
Expression_parse_lhs(l) == IF l.kind # "Ok" THEN l ELSE Expression_loop(l.P, l.node, 0)

\* Expression::parse
Expression_parse(P) == Expression_parse_lhs(ExpressionInner_parse(P))

\* Expression::parse: after lhs = parse!(@fn parser => parse_binary_expr, ..)
Expression_loop_binary(b, binary_times) ==
    IF b.kind # "Ok" THEN b
    ELSE Expression_loop(b.P, b.node, IF binary_times + 1 >= 2 THEN 0 ELSE binary_times + 1)

\* Expression::parse: match parser.peek_tok() { .. } of the loop
Expression_loop_tok(p, lhs, binary_times) ==
    IF ~Alive(p.P) THEN Stop(p.P)
    ELSE IF IsBinaryPunct(p.ret[1]) /\ binary_times # 1
    THEN Expression_loop_binary(parse_binary_expr(p.P, p.P.prec, lhs), binary_times)
    ELSE Parsed("Ok", p.P, lhs, NoDiag)

\* the loop of Expression::parse
Expression_loop(P, lhs, binary_times) == Expression_loop_tok(peek_tok(P), lhs, binary_times)

\* parse_binary_expr: after the loop on the lookahead operator
parse_binary_expr_fold(min_precedence, lhs, op, rhs) ==
    IF rhs.kind # "Ok" THEN rhs
    ELSE parse_binary_expr(rhs.P, min_precedence,
                           Node("BinaryExpr", op, <<>>, <<lhs, rhs.node>>,
                                Span_from_ends(loc_of(lhs), loc_of(rhs.node))))

\* parse_binary_expr: after let mut rhs = parse!(parser => ExpressionInner)
parse_binary_expr_rhs(min_precedence, lhs, op, pr, r) ==
    IF r.kind # "Ok" THEN r
    ELSE parse_binary_expr_fold(min_precedence, lhs, op,
                                parse_binary_rhs(r.P, pr.prec, r.node))

\* parse_binary_expr: after parser.consume_tok()
parse_binary_expr_op(min_precedence, lhs, op, pr, c) ==
    IF ~Alive(c.P) THEN Stop(c.P)
    ELSE parse_binary_expr_rhs(min_precedence, lhs, op, pr, ExpressionInner_parse(c.P))

\* parse_binary_expr: the token of the operator
parse_binary_expr_tok(p, min_precedence, lhs) ==
    LET op == BinaryOp_from_punct(p.ret[1].name)
        pr == operator_precedence(op)
    IN IF ~Alive(p.P) THEN Stop(p.P)
       ELSE IF ~IsBinaryPunct(p.ret[1]) THEN Parsed("Ok", p.P, lhs, NoDiag)
       ELSE IF pr.panic THEN Panic(p.P)
       ELSE IF pr.prec < min_precedence THEN Parsed("Ok", p.P, lhs, NoDiag)
       ELSE parse_binary_expr_op(min_precedence, lhs, op, pr, consume_tok(p.P))

\* parse_binary_expr
parse_binary_expr(P, min_precedence, lhs) ==
    parse_binary_expr_tok(peek_tok(P), min_precedence, lhs)

\* parse_binary_expr: after rhs = parse!(@fn parser => parse_binary_expr, ..)
parse_binary_rhs_higher(b, op_precede) ==
    IF b.kind # "Ok" THEN b ELSE parse_binary_rhs(b.P, op_precede, b.node)

\* parse_binary_expr: the lookahead operator
parse_binary_rhs_tok(p, op_precede, rhs) ==
    LET lh == operator_precedence(BinaryOp_from_punct(p.ret[1].name))
    IN IF ~Alive(p.P) THEN Stop(p.P)
       ELSE IF ~IsBinaryPunct(p.ret[1]) THEN Parsed("Ok", p.P, rhs, NoDiag)
       ELSE IF lh.panic THEN Panic(p.P)
       ELSE IF lh.prec <= op_precede THEN Parsed("Ok", p.P, rhs, NoDiag)
       ELSE parse_binary_rhs_higher(parse_binary_expr(p.P, lh.prec, rhs), op_precede)

\* the inner loop of parse_binary_expr, on the lookahead operator
parse_binary_rhs(P, op_precede, rhs) == parse_binary_rhs_tok(peek_tok(P), op_precede, rhs)

\* parse_left_unary_expr: after let operand = parse!(parser => Expression)
parse_left_unary_expr_operand(c, op, e) ==
    IF e.kind # "Ok" THEN e
    ELSE Parsed("Ok", e.P,
                Node("UnaryExpr", op, <<>>, <<e.node>>,
                     Span_from_ends(loc_of(c.ret[1]), loc_of(e.node))),
                NoDiag)

\* parse_left_unary_expr: after parser.consume_tok()
parse_left_unary_expr_op(c, op) ==
    LET pr == operator_precedence(op)
    IN IF ~Alive(c.P) THEN Stop(c.P)
       ELSE IF c.ret = None THEN Panic(c.P)
       ELSE IF op = ""
       THEN Parsed("Err", c.P, NoNode,
                   struct_err("expected left unary operator", <<>>, loc_of(c.ret[1])))
       ELSE IF pr.panic THEN Panic(c.P)
       ELSE parse_left_unary_expr_operand(c, op,
                                          Expression_parse([c.P EXCEPT !.prec = pr.prec]))

\* parse_left_unary_expr: match parser.peek_tok() { .. }
parse_left_unary_expr_tok(p) ==
    IF ~Alive(p.P) THEN Stop(p.P)
    ELSE IF p.ret[1].tt # "Punct"
    THEN Parsed("Err", p.P, NoNode,
                struct_err("expected unary operator", <<>>, loc_of(p.ret[1])))
    ELSE parse_left_unary_expr_op(consume_tok(p.P), UnaryOp_from_punct(p.ret[1].name))

\* parse_left_unary_expr
parse_left_unary_expr(P) == parse_left_unary_expr_tok(peek_tok(P))
\* the keywords if, else and return as the lexer spells them
KwIf == <<105, 102>>

KwElse == <<101, 108, 115, 101>>

KwReturn == <<114, 101, 116, 117, 114, 110>>

IsKW(tok, word) == tok.tt = "KW" /\ tok.val = word

IsPunct(tok, name) == tok.tt = "Punct" /\ tok.name = name

\* expect_token! did not give the token: [P, ok, tok, diag]
expect_failed(PP, dg) == [P |-> PP, ok |-> FALSE, tok |-> NoToken, diag |-> dg]

\* expect_token!: the token consumed
expect_token_consumed(c) ==
    IF ~Alive(c.P) THEN expect_failed(c.P, NoDiag)
    ELSE IF c.ret = None THEN expect_failed([c.P EXCEPT !.B.st = "panic"], NoDiag)
    ELSE [P |-> c.P, ok |-> TRUE, tok |-> c.ret[1], diag |-> NoDiag]

\* expect_token!: match $parser.peek_tok() { .. }
expect_token_tok(p, Matches(_), expected) ==
    IF ~Alive(p.P) THEN expect_failed(p.P, NoDiag)
    ELSE IF ~Matches(p.ret[1])
    THEN expect_failed(p.P, struct_err(expected, <<>>, loc_of(p.ret[1])))
    ELSE expect_token_consumed(consume_tok(p.P))

\* expect_token!(parser => [pattern, ()], expected): [P, ok, tok, diag]; the
\* token is consumed when it matches, else the error names what was expected
expect_token(P, Matches(_), expected) == expect_token_tok(peek_tok(P), Matches, expected)

\* what a parsing function returns when expect_token! did not match
Unexpected(e) == IF Alive(e.P) THEN Parsed("Err", e.P, NoNode, e.diag) ELSE Stop(e.P)

RECURSIVE Statement_parse(_)
RECURSIVE parse_if_stmt(_)
RECURSIVE parse_else_branch(_, _, _, _)
RECURSIVE Block_parse(_)
RECURSIVE Block_loop(_, _, _, _)

\* parse_expr_stmt: after let expr = parse!(parser => Expression)
parse_expr_stmt_expr(e) ==
    IF e.kind # "Ok" THEN e
    ELSE Parsed("Ok", e.P, Node("ExprStmt", "", <<>>, <<e.node>>, loc_of(e.node)), NoDiag)

\* parse_expr_stmt
parse_expr_stmt(P) == parse_expr_stmt_expr(Expression_parse(P))

\* parse_return_stmt: after let expr = parse!(parser => Expression)
parse_return_stmt_expr(k, e) ==
    IF e.kind # "Ok" THEN e
    ELSE Parsed("Ok", e.P,
                Node("ReturnStmt", "", <<>>, <<e.node>>,
                     Span_from_ends(loc_of(k.tok), loc_of(e.node))),
                NoDiag)

\* parse_return_stmt: if let Some(Token { tt: NewLine, .. }) = parser.try_peek_tok()
parse_return_stmt_tok(k, p) ==
    IF ~Alive(p.P) THEN Stop(p.P)
    ELSE IF p.ret # None /\ p.ret[1].tt = "NewLine"
    THEN Parsed("Ok", p.P, Node("ReturnStmt", "", <<>>, <<>>, loc_of(k.tok)), NoDiag)
    ELSE parse_return_stmt_expr(k, Expression_parse(p.P))

\* parse_return_stmt: after parser.try_peek_tok().map(..).unwrap_or_default()
parse_return_stmt_default(k, d) ==
    IF ~Alive(d.P) THEN Stop(d.P) ELSE parse_return_stmt_tok(k, try_peek_tok(d.P))

\* parse_return_stmt: after expect_token!(parser => [KW(Keyword::Return), ..])
parse_return_stmt_kw(k) ==
    IF ~k.ok THEN Unexpected(k) ELSE parse_return_stmt_default(k, try_peek_tok(k.P))

\* parse_return_stmt
parse_return_stmt(P) ==
    parse_return_stmt_kw(expect_token(P, LAMBDA t : IsKW(t, KwReturn),
                                      "expected keyword return"))

\* parse_if_stmt: after let body = parse!(parser => Block<Statement>)
parse_if_stmt_body(k, predicate, body) ==
    IF body.kind # "Ok" THEN body
    ELSE parse_else_branch(body.P, k.tok.lo, predicate.node, body.node)

\* parse_if_stmt: after expect_token!(parser => [Punct(Punctuation::Colon), ()], ..)
parse_if_stmt_colon(k, predicate, c) ==
    IF ~c.ok THEN Unexpected(c) ELSE parse_if_stmt_body(k, predicate, Block_parse(c.P))

\* parse_if_stmt: after let predicate = parse!(parser => Expression)
parse_if_stmt_predicate(k, predicate) ==
    IF predicate.kind # "Ok" THEN predicate
    ELSE parse_if_stmt_colon(k, predicate,
                             expect_token(predicate.P, LAMBDA t : IsPunct(t, "Colon"),
                                          "expected :"))

\* parse_if_stmt: after expect_token!(parser => [KW(Keyword::If), ..])
parse_if_stmt_kw(k) ==
    IF ~k.ok THEN Unexpected(k) ELSE parse_if_stmt_predicate(k, Expression_parse(k.P))

\* parse_if_stmt
parse_if_stmt(P) ==
    parse_if_stmt_kw(expect_token(P, LAMBDA t : IsKW(t, KwIf), "expected keyword if"))

\* the else branch: after parse!(parser => Block<Statement>)
parse_else_branch_body(lo, predicate, body, else_) ==
    IF else_.kind # "Ok" THEN else_
    ELSE Parsed("Ok", else_.P,
                Node("IfStmt", "", <<>>, <<predicate, body, else_.node>>,
                     Span_new(lo, else_.node.hi)),
                NoDiag)

\* the else branch: after expect_token!(parser => [Punct(Punctuation::Colon), ()], ..)
parse_else_branch_colon(lo, predicate, body, c) ==
    IF ~c.ok THEN Unexpected(c)
    ELSE parse_else_branch_body(lo, predicate, body, Block_parse(c.P))

\* the else branch: after expect_token!(parser => [KW(Keyword::Else), ()], ..)
parse_else_branch_kw(lo, predicate, body, k) ==
    IF ~k.ok THEN Unexpected(k)
    ELSE parse_else_branch_colon(lo, predicate, body,
                                 expect_token(k.P, LAMBDA t : IsPunct(t, "Colon"),
                                              "expected :"))

\* the else branch: if let Some(Token { tt: KW(Keyword::Else), .. }) = parser.try_peek_tok()
parse_else_branch_tok(lo, predicate, body, p) ==
    IF ~Alive(p.P) THEN Stop(p.P)
    ELSE IF p.ret # None /\ IsKW(p.ret[1], KwElse)
    THEN parse_else_branch_kw(lo, predicate, body,
                              expect_token(p.P, LAMBDA t : IsKW(t, KwElse),
                                           "expected keyword else"))
    ELSE Parsed("Ok", p.P,
                Node("IfStmt", "", <<>>, <<predicate, body>>, Span_new(lo, body.hi)),
                NoDiag)

\* the else branch of parse_if_stmt
parse_else_branch(P, lo, predicate, body) ==
    parse_else_branch_tok(lo, predicate, body, try_peek_tok(P))

\* StatementInner::parse: match parser.peek_tok() { .. }
Statement_parse_tok(p) ==
    IF ~Alive(p.P) THEN Stop(p.P)
    ELSE IF IsKW(p.ret[1], KwIf) THEN parse_if_stmt(p.P)
    ELSE IF IsKW(p.ret[1], KwReturn) THEN parse_return_stmt(p.P)
    ELSE parse_expr_stmt(p.P)

\* Statement::parse / StatementInner::parse
Statement_parse(P) == Statement_parse_tok(peek_tok(P))

RECURSIVE consume_toks(_, _)
\* for _ in 0..til_next { parser.consume_tok(); }
consume_toks(P, n) ==
    IF n = 0 \/ ~Alive(P) THEN P ELSE consume_toks(consume_tok(P).P, n - 1)

\* the span of a token, Span::default() for None
peek_loc_tok(p) ==
    [P |-> p.P, loc |-> IF p.ret = None THEN Span_new(0, 0) ELSE loc_of(p.ret[1])]

\* the span of the token try_peek_tok() gives, Span::default() for None
peek_loc(P) == peek_loc_tok(try_peek_tok(P))

\* a call of Block::parse returned r: it is added to the record of the calls,
\* form "line" for the single-line form and "indented" for the other, with
\* the indent stack at the entry and at the return of the call and the gap
\* compute_indent gave for the first line (None when it gave none)
Returning(r, form, gap, entry) ==
    IF r.kind \in {"panic", "hang"} THEN r
    ELSE [r EXCEPT !.P.blocks =
              Append(r.P.blocks,
                     [form |-> form, gap |-> gap, entry |-> entry, exit |-> r.P.indent,
                      kind |-> r.kind, msg |-> r.diag.msg, len |-> Len(r.node.kids)])]

\* a block whose first line is not indented
never_empty(lvl, gap) == FALSE

\* if let Some(lvl) = parser.last_indent() { if lvl == gap { .. } }
is_empty(lvl, gap) == lvl # None /\ lvl[1] = gap

\* Block::parse: the single-line form, after let elem = parse!(parser => N)
Block_parse_line(P, elem) ==
    IF elem.kind # "Ok" THEN Returning(elem, "line", None, P.indent)
    ELSE Returning(Parsed("Ok", elem.P,
                          Node("Block", "", <<>>, <<elem.node>>, loc_of(elem.node)), NoDiag),
                   "line", None, P.indent)

\* Block::parse: return Err(..) with the location of the token ahead
Block_parse_refused(P, l, msg, gap) ==
    IF ~Alive(l.P) THEN Stop(l.P)
    ELSE Returning(Parsed("Err", l.P, NoNode, struct_err(msg, <<>>, l.loc)),
                   "indented", gap, P.indent)

\* Block::parse: after for _ in 0..til_next { parser.consume_tok(); }
Block_parse_open(P, ci, c) ==
    IF ~Alive(c) THEN Stop(c) ELSE Block_loop(indent(c, ci.gap), <<>>, ci.gap, P.indent)

\* Block::parse: after let Some((gap, til_next)) = parser.compute_indent()
Block_parse_indent(P, ci) ==
    IF ~Alive(ci.P) THEN Stop(ci.P)
    ELSE IF ~ci.some
    THEN Block_parse_refused(P, peek_loc(ci.P), "expected end of file, found block", None)
    ELSE IF is_empty(last_indent(ci.P), ci.gap)
    THEN Block_parse_refused(P, peek_loc(ci.P), "a block may not be empty", Some(ci.gap))
    ELSE Block_parse_open(P, ci, consume_toks(ci.P, ci.til_next))

\* Block::parse: the token ahead, a NewLine or not
Block_parse_tok(P, p) ==
    IF ~Alive(p.P) THEN Stop(p.P)
    ELSE IF ~(p.ret # None /\ p.ret[1].tt = "NewLine")
    THEN Block_parse_line(P, Statement_parse(p.P))
    ELSE Block_parse_indent(P, compute_indent(p.P))

\* Block<Statement>::parse
Block_parse(P) == Block_parse_tok(P, try_peek_tok(P))

\* the loop of Block::parse: compute_indent() gave None
Block_loop_refused(l, gap0, entry) ==
    IF ~Alive(l.P) THEN Stop(l.P)
    ELSE Returning(Parsed("Err", l.P, NoNode,
                          struct_err("expected end of file, found block", <<>>, l.loc)),
                   "indented", Some(gap0), entry)

\* the loop of Block::parse: after for _ in 0..til_next { parser.consume_tok(); }
Block_loop_next(c, content1, gap0, entry) ==
    IF ~Alive(c) THEN Stop(c) ELSE Block_loop(c, content1, gap0, entry)

\* the loop of Block::parse: after parser.compute_indent()
Block_loop_indent(ci, content1, gap0, entry) ==
    IF ~Alive(ci.P) THEN Stop(ci.P)
    ELSE IF ~ci.some THEN Block_loop_refused(peek_loc(ci.P), gap0, entry)
    ELSE IF last_indent(ci.P) = None THEN Panic(ci.P)
    ELSE IF ci.gap # last_indent(ci.P)[1]
    THEN Returning(Parsed("Ok", dedent(ci.P),
                          Node("Block", "", <<>>, content1,
                               Span_from_ends(loc_of(content1[1]),
                                              loc_of(content1[Len(content1)]))),
                          NoDiag),
                   "indented", Some(gap0), entry)
    ELSE Block_loop_next(consume_toks(ci.P, ci.til_next), content1, gap0, entry)

\* the loop of Block::parse: after content.push(parse!(parser => N))
Block_loop_elem(elem, content, gap0, entry) ==
    IF elem.kind # "Ok" THEN Returning(elem, "indented", Some(gap0), entry)
    ELSE Block_loop_indent(compute_indent(elem.P), Append(content, elem.node), gap0, entry)

\* the loop of Block::parse, with the gap and the indent stack of its entry
Block_loop(P, content, gap0, entry) ==
    Block_loop_elem(Statement_parse(P), content, gap0, entry)

\* the Parser of the state
CurrentP ==
    [B |-> CurrentB, prec |-> parser.prec, indent |-> parser.indent,
     checks |-> parser.checks, blocks |-> parser.blocks]

\* the lines of the texts given to the parser: 1 and if 1: after 0, 1 or 2
\* spaces, the empty line, a line of one space, and if 1: 2
IndentedLines ==
    {pre \o body : pre \in {<<>>, <<32>>, <<32, 32>>},
                   body \in {<<49>>, <<105, 102, 32, 49, 58>>}}

Lines == IndentedLines \cup {<<>>, <<32>>, <<105, 102, 32, 49, 58, 32, 50>>}

RECURSIVE JoinLines(_)
\* the lines with a line feed between them
JoinLines(ls) ==
    IF Len(ls) = 1 THEN ls[1] ELSE ls[1] \o <<10>> \o JoinLines(Tail(ls))

\* the numbers of lines of the texts
LineCounts == 1..3

\* texts of more lines:
\*   if 1:\n  2\nelse:\n  3
\*   if 1:\n  if 2:\n    3\n  4\n
\*   \n  1 + 2\n  return\n  return 3\n
\*   \n    1\n  2\n3
MoreTexts ==
    {<<105, 102, 32, 49, 58, 10, 32, 32, 50, 10, 101, 108, 115, 101, 58, 10, 32, 32, 51>>,
     <<105, 102, 32, 49, 58, 10, 32, 32, 105, 102, 32, 50, 58, 10, 32, 32, 32, 32, 51, 10,
       32, 32, 52, 10>>,
     <<10, 32, 32, 49, 32, 43, 32, 50, 10, 32, 32, 114, 101, 116, 117, 114, 110, 10, 32, 32,
       114, 101, 116, 117, 114, 110, 32, 51, 10>>,
     <<10, 32, 32, 32, 32, 49, 10, 32, 32, 50, 10, 51>>}

ParserTexts ==
    {JoinLines(ls) : ls \in UNION {[1..n -> Lines] : n \in LineCounts}} \cup MoreTexts

InitParser ==
    /\ NoVM /\ NoDynInt /\ NoSymbolTable
    /\ \E text \in ParserTexts : lexer = Lexer_new(text)
    /\ lexed = <<>> /\ lx_status = "ok"
    /\ tokbuf = <<>> /\ emitted = <<>> /\ blcalls = <<>>
    /\ \E checks \in BOOLEAN :
          parser = [prec |-> 0, indent |-> <<0>>, checks |-> checks, blocks |-> <<>>]
    /\ parsed = <<>>

\* a parsing function returned r (or did not return, when r.kind is "panic"
\* or "hang")
ParserReturns(fn, r) ==
    /\ lexer' = r.P.B.L
    /\ tokbuf' = r.P.B.buf
    /\ emitted' = r.P.B.diags
    /\ lx_status' = r.P.B.st
    /\ parser' = [prec |-> r.P.prec, indent |-> r.P.indent, checks |-> r.P.checks,
                  blocks |-> r.P.blocks]
    /\ parsed' = Append(parsed, [fn |-> fn, kind |-> r.kind, node |-> r.node,
                                 msg |-> r.diag.msg])
    /\ UNCHANGED <<lexed, blcalls>>
    /\ UNCHANGED outside_ps

\* parse!(parser => Block<Statement>)
Parser_parse_Block ==
    /\ lx_status = "ok" /\ Len(parsed) < MaxParses
    /\ ParserReturns("Block", Block_parse(CurrentP))

\* parse!(parser => Statement)
Parser_parse_Statement ==
    /\ lx_status = "ok" /\ Len(parsed) < MaxParses
    /\ ParserReturns("Statement", Statement_parse(CurrentP))

NextParser == Parser_parse_Block \/ Parser_parse_Statement

SpecParser == InitParser /\ [][NextParser]_vars

RECURSIVE Blocks(_)
\* the Block nodes of a tree, the tree itself included
Blocks(n) ==
    (IF n.node = "Block" THEN {n} ELSE {}) \cup UNION {Blocks(n.kids[k]) : k \in 1..Len(n.kids)}

RECURSIVE FirstIndent(_, _, _)
\* the number of spaces before the first scalar of a text, from scalar k on
\* and col spaces into its line, that is neither a space nor a line feed;
\* -1 when there is none
FirstIndent(text, k, col) ==
    IF k > Len(text) THEN -1
    ELSE IF text[k] = 10 THEN FirstIndent(text, k + 1, 0)
    ELSE IF text[k] = 32 THEN FirstIndent(text, k + 1, col + 1)
    ELSE col

\* the top of the indent stack at the entry of a recorded call of Block::parse
EntryTop(b) == b.entry[Len(b.entry)]

\* C20: every Block returned by a successful Block parse has at least one
\* element in content, in the single-line form and in the indented form;
\* when the first token after the opener that is not a NewLine has an
\* indent gap equal to the top of the indent stack, the parse fails with
\* "a block may not be empty" and returns no block.
C20_BlockNotEmpty ==
    /\ \A k \in 1..Len(parser.blocks) :
          LET b == parser.blocks[k]
          IN /\ b.kind = "Ok" => b.len >= 1
             /\ b.form = "indented" /\ b.gap = Some(EntryTop(b)) =>
                   b.kind = "Err" /\ b.msg = "a block may not be empty" /\ b.len = 0
    /\ \A k \in 1..Len(parsed) :
          parsed[k].kind = "Ok" => \A n \in Blocks(parsed[k].node) : Len(n.kids) >= 1
    /\ /\ parsed # <<>> /\ parsed[1].fn = "Block"
       /\ lexer.text # <<>> /\ lexer.text[1] = 10
       /\ FirstIndent(lexer.text, 1, 0) = 0
       => parsed[1].kind = "Err" /\ parsed[1].msg = "a block may not be empty"

\* a block was refused as empty inside an indented block: the top of the
\* indent stack was 2
C20_Witness ==
    \E k \in 1..Len(parser.blocks) :
        LET b == parser.blocks[k]
        IN /\ b.form = "indented" /\ b.gap = Some(EntryTop(b)) /\ EntryTop(b) > 0
           /\ b.msg = "a block may not be empty"

\* blocks of both forms were returned
C20_WitnessForms ==
    /\ \E k \in 1..Len(parser.blocks) :
          parser.blocks[k].kind = "Ok" /\ parser.blocks[k].form = "line"
    /\ \E k \in 1..Len(parser.blocks) :
          /\ parser.blocks[k].kind = "Ok" /\ parser.blocks[k].form = "indented"
          /\ parser.blocks[k].len >= 2

---------------------------------------------------------------------------
(* The declarations (decl.rs, types.rs) and Parser::begin_parsing *)

\* the keyword fun as the lexer spells it
KwFun == <<102, 117, 110>>

\* TypeInner::is_primitive_type: uint8 uint16 uint32 uint64 uint int8 int16
\* int32 int64 int bool char
PrimitiveTypes ==
    {<<117, 105, 110, 116, 56>>, <<117, 105, 110, 116, 49, 54>>,
     <<117, 105, 110, 116, 51, 50>>, <<117, 105, 110, 116, 54, 52>>,
     <<117, 105, 110, 116>>, <<105, 110, 116, 56>>, <<105, 110, 116, 49, 54>>,
     <<105, 110, 116, 51, 50>>, <<105, 110, 116, 54, 52>>, <<105, 110, 116>>,
     <<98, 111, 111, 108>>, <<99, 104, 97, 114>>}

is_primitive_type(ty) == ty \in PrimitiveTypes

\* parse_primitive_type: after expect_token!(parser => [Ident(ty_str), ..])
parse_primitive_type_name(n) ==
    IF ~n.ok THEN Unexpected(n)
    ELSE IF ~is_primitive_type(n.tok.val)
    THEN Parsed("Err", n.P, NoNode,
                struct_err("expected primitive type", n.tok.val, loc_of(n.tok)))
    ELSE Parsed("Ok", n.P, Node("Type", "", n.tok.val, <<>>, loc_of(n.tok)), NoDiag)

\* parse_primitive_type
parse_primitive_type(P) ==
    parse_primitive_type_name(expect_token(P, LAMBDA t : t.tt = "Ident",
                                           "expected identifier"))

\* Type::parse: match parser.peek_tok() { .. }
Type_parse_tok(p) ==
    IF ~Alive(p.P) THEN Stop(p.P)
    ELSE IF p.ret[1].tt = "Ident" /\ is_primitive_type(p.ret[1].val)
    THEN parse_primitive_type(p.P)
    ELSE Parsed("Err", p.P, NoNode, struct_err("expected type", <<>>, loc_of(p.ret[1])))

\* Type::parse
Type_parse(P) == Type_parse_tok(peek_tok(P))

RECURSIVE fun_args_loop(_, _)

\* the arguments of a function, as the loop of parse_fun_decl leaves them
fun_args_done(P, args) ==
    Parsed("Ok", P, Node("Args", "", <<>>, args, Span_new(0, 0)), NoDiag)

\* the loop of parse_fun_decl: the Comma consumed
fun_args_comma(c, args) ==
    IF ~Alive(c.P) THEN Stop(c.P)
    ELSE IF c.ret = None THEN Panic(c.P)
    ELSE fun_args_loop(c.P, args)

\* the loop of parse_fun_decl: expect_token!(parser => [Punct(Comma), ();
\* Punct(RParen), (), in break], ..): the RParen is left to the caller
fun_args_sep(p, args) ==
    IF ~Alive(p.P) THEN Stop(p.P)
    ELSE IF IsPunct(p.ret[1], "Comma") THEN fun_args_comma(consume_tok(p.P), args)
    ELSE IF IsPunct(p.ret[1], "RParen") THEN fun_args_done(p.P, args)
    ELSE Parsed("Err", p.P, NoNode, struct_err("expected , or (", <<>>, loc_of(p.ret[1])))

\* the loop of parse_fun_decl: after let ty = parse!(parser => Type)
fun_args_type(n, ty, args) ==
    IF ty.kind # "Ok" THEN ty
    ELSE fun_args_sep(peek_tok(ty.P),
                      Append(args, Node("Arg", "", n.tok.val, <<ty.node>>, loc_of(n.tok))))

\* the loop of parse_fun_decl: after expect_token!(parser => [Punct(Colon), ()], ..)
fun_args_colon(n, c, args) ==
    IF ~c.ok THEN Unexpected(c) ELSE fun_args_type(n, Type_parse(c.P), args)

\* the loop of parse_fun_decl: after expect_token!(parser => [Ident(name), ..])
fun_args_name(n, args) ==
    IF ~n.ok THEN Unexpected(n)
    ELSE fun_args_colon(n, expect_token(n.P, LAMBDA t : IsPunct(t, "Colon"), "expected :"),
                        args)

\* the loop of parse_fun_decl: if let Some(Token { tt: Punct(RParen), .. }) =
\* parser.try_peek_tok() { break; }
fun_args_tok(p, args) ==
    IF ~Alive(p.P) THEN Stop(p.P)
    ELSE IF p.ret # None /\ IsPunct(p.ret[1], "RParen") THEN fun_args_done(p.P, args)
    ELSE fun_args_name(expect_token(p.P, LAMBDA t : t.tt = "Ident", "expected identifier"),
                       args)

\* the loop of parse_fun_decl on the arguments
fun_args_loop(P, args) == fun_args_tok(try_peek_tok(P), args)

\* parse_fun_decl: after let block = parse!(parser => Block<Statement>); the
\* location ends where the last node of the block ends
parse_fun_decl_block(k, n, a, ret, b) ==
    IF b.kind # "Ok" THEN b
    ELSE Parsed("Ok", b.P,
                Node("Function", "", n.tok.val,
                     <<a.node, ret.node, b.node>>,
                     Span_new(k.tok.lo,
                              IF b.node.kids = <<>> THEN 0
                              ELSE b.node.kids[Len(b.node.kids)].hi)),
                NoDiag)

\* parse_fun_decl: after expect_token!(parser => [Punct(Equal), ()], ..)
parse_fun_decl_equal(k, n, a, ret, e) ==
    IF ~e.ok THEN Unexpected(e) ELSE parse_fun_decl_block(k, n, a, ret, Block_parse(e.P))

\* parse_fun_decl: the type of the result, None for a function without one
fun_ret_done(P, ret) == Parsed("Ok", P, Node("Ret", "", <<>>, ret, Span_new(0, 0)), NoDiag)

\* parse_fun_decl: after Some(parse!(parser => Type))
fun_ret_type(ty) == IF ty.kind # "Ok" THEN ty ELSE fun_ret_done(ty.P, <<ty.node>>)

\* parse_fun_decl: after expect_token!(parser => [Punct(ThinRArrow), ()], ..)
fun_ret_arrow(t) == IF ~t.ok THEN Unexpected(t) ELSE fun_ret_type(Type_parse(t.P))

\* parse_fun_decl: let ret = if let Some(Token { tt: Punct(ThinRArrow), .. }) =
\* parser.try_peek_tok() { .. } else { None }
fun_ret_tok(p) ==
    IF ~Alive(p.P) THEN Stop(p.P)
    ELSE IF p.ret # None /\ IsPunct(p.ret[1], "ThinRArrow")
    THEN fun_ret_arrow(expect_token(p.P, LAMBDA t : IsPunct(t, "ThinRArrow"), "expected ->"))
    ELSE fun_ret_done(p.P, <<>>)

\* parse_fun_decl: after let ret = ..
parse_fun_decl_ret(k, n, a, ret) ==
    IF ret.kind # "Ok" THEN ret
    ELSE parse_fun_decl_equal(k, n, a, ret,
                              expect_token(ret.P, LAMBDA t : IsPunct(t, "Equal"),
                                           "expected ="))

\* parse_fun_decl: after expect_token!(parser => [Punct(RParen), ()], ..)
parse_fun_decl_rparen(k, n, a, r) ==
    IF ~r.ok THEN Unexpected(r) ELSE parse_fun_decl_ret(k, n, a, fun_ret_tok(try_peek_tok(r.P)))

\* parse_fun_decl: after the loop on the arguments
parse_fun_decl_args(k, n, a) ==
    IF a.kind # "Ok" THEN a
    ELSE parse_fun_decl_rparen(k, n, a,
                               expect_token(a.P, LAMBDA t : IsPunct(t, "RParen"),
                                            "expected ("))

\* parse_fun_decl: after expect_token!(parser => [Punct(LParen), ()], ..)
parse_fun_decl_lparen(k, n, l) ==
    IF ~l.ok THEN Unexpected(l) ELSE parse_fun_decl_args(k, n, fun_args_loop(l.P, <<>>))

\* parse_fun_decl: after expect_token!(parser => [Ident(name), name.clone()], ..)
parse_fun_decl_name(k, n) ==
    IF ~n.ok THEN Unexpected(n)
    ELSE parse_fun_decl_lparen(k, n,
                               expect_token(n.P, LAMBDA t : IsPunct(t, "LParen"),
                                            "expected )"))

\* parse_fun_decl: after expect_token!(parser => [KW(Keyword::Fun), ()], ..)
parse_fun_decl_kw(k) ==
    IF ~k.ok THEN Unexpected(k)
    ELSE parse_fun_decl_name(k, expect_token(k.P, LAMBDA t : t.tt = "Ident",
                                             "expected identifier"))

\* parse_fun_decl.  The lexer names ( RParen and ) LParen (could_make_punct),
\* and parse_fun_decl expects LParen, the arguments, then RParen.
parse_fun_decl(P) ==
    parse_fun_decl_kw(expect_token(P, LAMBDA t : IsKW(t, KwFun), "expected keyword fun"))

\* Declaration::parse: after parse!(@fn parser => parse_fun_decl); vis is
\* Public after the keyword pub, and then the location starts at the keyword
parse_decl_fun(vis, f) ==
    IF f.kind # "Ok" THEN f
    ELSE Parsed("Ok", f.P,
                Node("Declaration", IF vis.ok THEN "Public" ELSE "Private", <<>>, <<f.node>>,
                     IF vis.ok THEN Span_new(vis.tok.lo, f.node.hi) ELSE loc_of(f.node)),
                NoDiag)

\* Declaration::parse: match parser.peek_tok() { .. }
parse_decl_tok(vis, p) ==
    IF ~Alive(p.P) THEN Stop(p.P)
    ELSE IF IsKW(p.ret[1], KwFun) THEN parse_decl_fun(vis, parse_fun_decl(p.P))
    ELSE Parsed("Err", p.P, NoNode,
                struct_err("expected declaration", <<>>, loc_of(p.ret[1])))

\* Declaration::parse: after expect_token!(parser => [KW(Keyword::Pub), ..]
\* else { (Visibility::Private, Span::ZERO) })
parse_decl_vis(P, vis) ==
    IF ~Alive(vis.P) THEN Stop(vis.P)
    ELSE parse_decl_tok(vis, peek_tok(vis.P))

\* Declaration::parse
Declaration_parse(P) == parse_decl_vis(P, expect_token(P, LAMBDA t : IsKW(t, Pub), ""))

RECURSIVE begin_parsing_newlines(_)
RECURSIVE begin_parsing_loop(_, _)

\* begin_parsing: while let Some(Token { tt: NewLine, .. }) = self.try_peek_tok()
begin_parsing_newline(p) ==
    IF Alive(p.P) /\ p.ret # None /\ p.ret[1].tt = "NewLine"
    THEN begin_parsing_newlines(consume_tok(p.P).P)
    ELSE p.P

begin_parsing_newlines(P) == begin_parsing_newline(try_peek_tok(P))

\* self.dcx().emit_diag(diag)
emit_diag(P, diag) == [P EXCEPT !.B.diags = Append(@, diag)]

\* begin_parsing returns decls
begin_parsing_done(P, decls) ==
    Parsed("Ok", P, Node("Declarations", "", <<>>, decls, Span_new(0, 0)), NoDiag)

\* begin_parsing: match Declaration::parse(self) { .. }
begin_parsing_decl(d, decls) ==
    IF d.kind \in {"panic", "hang"} THEN d
    ELSE IF d.kind = "Ok" THEN begin_parsing_loop(d.P, Append(decls, d.node))
    ELSE begin_parsing_done(emit_diag(d.P, d.diag), decls)

\* begin_parsing: if let Some(Token { tt: EOF, .. }) = self.try_peek_tok() { break; }
begin_parsing_eof(p, decls) ==
    IF ~Alive(p.P) THEN Stop(p.P)
    ELSE IF p.ret # None /\ p.ret[1].tt = "EOF" THEN begin_parsing_done(p.P, decls)
    ELSE begin_parsing_decl(Declaration_parse(p.P), decls)

\* the loop of begin_parsing
begin_parsing_loop(P, decls) == begin_parsing_eof(try_peek_tok(begin_parsing_newlines(P)), decls)

\* Parser::begin_parsing
begin_parsing(P) == begin_parsing_loop(P, <<>>)

---------------------------------------------------------------------------
(* SpecDecl: the parser on the texts of declarations *)

\* the four lines fun f() = / if 1 == 1: / return 1 / return 0, indented by
\* 0, 2, 4 and 2 spaces
IndentationSource ==
    <<102, 117, 110, 32, 102, 40, 41, 32, 61, 10, 32, 32, 105, 102, 32, 49, 32, 61, 61, 32,
      49, 58, 10, 32, 32, 32, 32, 114, 101, 116, 117, 114, 110, 32, 49, 10, 32, 32, 114,
      101, 116, 117, 114, 110, 32, 48>>

\* the same lines with the parentheses as parse_fun_decl takes them: fun f)( =
SwappedSource ==
    <<102, 117, 110, 32, 102, 41, 40, 32, 61, 10, 32, 32, 105, 102, 32, 49, 32, 61, 61, 32,
      49, 58, 10, 32, 32, 32, 32, 114, 101, 116, 117, 114, 110, 32, 49, 10, 32, 32, 114,
      101, 116, 117, 114, 110, 32, 48>>

\* a text, and the text with a line feed after its last line
WithLineFeed(texts) == texts \cup {t \o <<10>> : t \in texts}

\* other declarations:
\*   fun f)( = 1               fun f)a: int( = 1
\*   fun f)a: int, b: bool,( = return
\*   fun f)( -> int = 1        fun        fun 1        f
\*   fun f)a( = 1              fun f)a: x( = 1        fun f)a: int b( = 1
\*   fun f)( 1                 \nfun f)( = 1\n\nfun g)( = 2
\*   fun f)( = 1\n2            fun f)( =\n  1
DeclSources ==
    {<<102, 117, 110, 32, 102, 41, 40, 32, 61, 32, 49>>,
     <<102, 117, 110, 32, 102, 41, 97, 58, 32, 105, 110, 116, 40, 32, 61, 32, 49>>,
     <<102, 117, 110, 32, 102, 41, 97, 58, 32, 105, 110, 116, 44, 32, 98, 58, 32, 98, 111,
       111, 108, 44, 40, 32, 61, 32, 114, 101, 116, 117, 114, 110>>,
     <<102, 117, 110, 32, 102, 41, 40, 32, 45, 62, 32, 105, 110, 116, 32, 61, 32, 49>>,
     <<102, 117, 110>>,
     <<102, 117, 110, 32, 49>>,
     <<102>>,
     <<102, 117, 110, 32, 102, 41, 97, 40, 32, 61, 32, 49>>,
     <<102, 117, 110, 32, 102, 41, 97, 58, 32, 120, 40, 32, 61, 32, 49>>,
     <<102, 117, 110, 32, 102, 41, 97, 58, 32, 105, 110, 116, 32, 98, 40, 32, 61, 32, 49>>,
     <<102, 117, 110, 32, 102, 41, 40, 32, 49>>,
     <<10, 102, 117, 110, 32, 102, 41, 40, 32, 61, 32, 49, 10, 10, 102, 117, 110, 32, 103,
       41, 40, 32, 61, 32, 50>>,
     <<102, 117, 110, 32, 102, 41, 40, 32, 61, 32, 49, 10, 50>>,
     <<102, 117, 110, 32, 102, 41, 40, 32, 61, 10, 32, 32, 49>>}

DeclTexts == WithLineFeed({IndentationSource, SwappedSource} \cup DeclSources)

InitDecl ==
    /\ NoVM /\ NoDynInt /\ NoSymbolTable
    /\ \E text \in DeclTexts : lexer = Lexer_new(text)
    /\ lexed = <<>> /\ lx_status = "ok"
    /\ tokbuf = <<>> /\ emitted = <<>> /\ blcalls = <<>>
    /\ \E checks \in BOOLEAN :
          parser = [prec |-> 0, indent |-> <<0>>, checks |-> checks, blocks |-> <<>>]
    /\ parsed = <<>>

\* parser.begin_parsing()
Parser_begin_parsing ==
    /\ lx_status = "ok" /\ Len(parsed) < MaxParses
    /\ ParserReturns("begin_parsing", begin_parsing(CurrentP))

NextDecl == Parser_begin_parsing

SpecDecl == InitDecl /\ [][NextDecl]_vars

\* begin_parsing was called on the new parser, and nothing else since
FirstBeginParsing == Len(parsed) = 1 /\ parsed[1].fn = "begin_parsing"

\* Return(v): a ReturnStmt of the integer literal v
IsReturn(n, v) ==
    /\ n.node = "ReturnStmt" /\ Len(n.kids) = 1
    /\ n.kids[1].node = "IntLiteral" /\ n.kids[1].val = u64_from(v)

\* the tree of the indentation scenario: one function f whose body is a
\* block of an If, whose body is a block of Return(1), and Return(0)
IsIndentationTree(decls) ==
    /\ Len(decls) = 1
    /\ decls[1].node = "Declaration" /\ decls[1].kids[1].node = "Function"
    /\ decls[1].kids[1].val = <<102>>
    /\ LET body == decls[1].kids[1].kids[3]
       IN /\ body.node = "Block" /\ Len(body.kids) = 2
          /\ body.kids[1].node = "IfStmt" /\ Len(body.kids[1].kids) = 2
          /\ body.kids[1].kids[2].node = "Block"
          /\ Len(body.kids[1].kids[2].kids) = 1
          /\ IsReturn(body.kids[1].kids[2].kids[1], 1)
          /\ IsReturn(body.kids[2], 0)

\* C21: parsing the four-line source fun f() = / if 1 == 1: / return 1 /
\* return 0 (indented by 0, 2, 4 and 2 spaces) yields one function f whose
\* body block has exactly two statements, an If whose body block holds the
\* single statement Return(1), followed by Return(0), and emits no
\* diagnostics.
C21_Indentation ==
    FirstBeginParsing /\ lexer.text \in WithLineFeed({IndentationSource}) =>
        /\ parsed[1].kind = "Ok"
        /\ IsIndentationTree(parsed[1].node.kids)
        /\ emitted = <<>>

\* what the code does with the source: ( is lexed as Punct(RParen) and
\* parse_fun_decl expects Punct(LParen) after the name, so begin_parsing
\* emits "expected )" at the ( and returns no declaration.  The source with
\* the parentheses swapped gives the tree and no diagnostic in a build
\* without overflow checks, and a panic in compute_indent at the end of file
\* in a build with them.
C21_CodeBehaviour ==
    /\ FirstBeginParsing /\ lexer.text \in WithLineFeed({IndentationSource}) =>
          /\ parsed[1].kind = "Ok" /\ parsed[1].node.kids = <<>>
          /\ Len(emitted) = 1 /\ emitted[1].msg = "expected )"
          /\ emitted[1].lo = 5 /\ emitted[1].hi = 6
    /\ FirstBeginParsing /\ lexer.text \in WithLineFeed({SwappedSource}) =>
          IF parser.checks THEN parsed[1].kind = "panic"
          ELSE /\ parsed[1].kind = "Ok" /\ IsIndentationTree(parsed[1].node.kids)
               /\ emitted = <<>>

\* begin_parsing returned on the four-line source
C21_SourceParsed ==
    FirstBeginParsing /\ lexer.text = IndentationSource /\ parsed[1].kind = "Ok"

\* begin_parsing returned the tree on the source with the parentheses swapped
C21_TreeReached ==
    /\ FirstBeginParsing /\ lexer.text = SwappedSource /\ ~parser.checks
    /\ parsed[1].kind = "Ok" /\ IsIndentationTree(parsed[1].node.kids)

---------------------------------------------------------------------------
(* SpecExpr: Expression::parse on the texts of expressions *)

\* the 13 binary operators (enum BinaryOp) as they are written
Spelling ==
    [Mul |-> <<42>>, Div |-> <<47>>, Rem |-> <<37>>, Add |-> <<43>>, Sub |-> <<45>>,
     RShift |-> <<62, 62>>, LShift |-> <<60, 60>>, CompLT |-> <<60>>, CompGT |-> <<62>>,
     CompLTE |-> <<60, 61>>, CompGTE |-> <<62, 61>>, CompEq |-> <<61, 61>>,
     CompNe |-> <<33, 61>>]

BinaryOps == DOMAIN Spelling

\* the precedence of the 13 binary operators: * / % 7, + - 6, << >> 5,
\* < > <= >= 4, == != 3
Precedence ==
    [Mul |-> 7, Div |-> 7, Rem |-> 7, Add |-> 6, Sub |-> 6, RShift |-> 5, LShift |-> 5,
     CompLT |-> 4, CompGT |-> 4, CompLTE |-> 4, CompGTE |-> 4, CompEq |-> 3, CompNe |-> 3]

\* the texts 1 op 2 and 1 op1 2 op2 3
Expr2(op) == <<49, 32>> \o Spelling[op] \o <<32, 50>>

Expr3(op1, op2) == Expr2(op1) \o <<32>> \o Spelling[op2] \o <<32, 51>>

\* the prefix operators - and !
Prefixes == {<<45>>, <<33>>}

\* the texts of expressions with a prefix operator: -1, !1, -1 * 2, !1 * 2,
\* --1, -!1, !-1, !!1, and 1 * -2, 1 * !2
UnaryTexts ==
    {p \o <<49>> : p \in Prefixes}
        \cup {p \o <<49, 32, 42, 32, 50>> : p \in Prefixes}
        \cup {p \o q \o <<49>> : p, q \in Prefixes}
        \cup {<<49, 32, 42, 32>> \o p \o <<50>> : p \in Prefixes}

\* other expressions:
\*   1      1 + 2 * 3 - 4      1*2+3      1 +      + 1      1 2      1 == 2:
MoreExprTexts ==
    {<<49>>,
     <<49, 32, 43, 32, 50, 32, 42, 32, 51, 32, 45, 32, 52>>,
     <<49, 42, 50, 43, 51>>,
     <<49, 32, 43>>,
     <<43, 32, 49>>,
     <<49, 32, 50>>,
     <<49, 32, 61, 61, 32, 50, 58>>}

ExprTexts ==
    {Expr2(op) : op \in BinaryOps} \cup {Expr3(op1, op2) : op1, op2 \in BinaryOps}
        \cup UnaryTexts \cup MoreExprTexts

InitExpr ==
    /\ NoVM /\ NoDynInt /\ NoSymbolTable
    /\ \E text \in ExprTexts : lexer = Lexer_new(text)
    /\ lexed = <<>> /\ lx_status = "ok"
    /\ tokbuf = <<>> /\ emitted = <<>> /\ blcalls = <<>>
    /\ \E checks \in BOOLEAN :
          parser = [prec |-> 0, indent |-> <<0>>, checks |-> checks, blocks |-> <<>>]
    /\ parsed = <<>>

\* parse!(parser => Expression)
Parser_parse_Expression ==
    /\ lx_status = "ok" /\ Len(parsed) < MaxParses
    /\ ParserReturns("Expression", Expression_parse(CurrentP))

NextExpr == Parser_parse_Expression

SpecExpr == InitExpr /\ [][NextExpr]_vars

\* Expression::parse was called on the new parser, and nothing else since
FirstExpression == Len(parsed) = 1 /\ parsed[1].fn = "Expression"

\* the integer literal v
IsInt(n, v) == n.node = "IntLiteral" /\ n.val = u64_from(v)

\* BinaryExpr{lhs, op, rhs}
IsBinary(n, op) == n.node = "BinaryExpr" /\ n.op = op /\ Len(n.kids) = 2

\* BinaryExpr{1, op1, BinaryExpr{2, op2, 3}}
GroupsRight(n, op1, op2) ==
    /\ IsBinary(n, op1) /\ IsInt(n.kids[1], 1) /\ IsBinary(n.kids[2], op2)
    /\ IsInt(n.kids[2].kids[1], 2) /\ IsInt(n.kids[2].kids[2], 3)

\* BinaryExpr{BinaryExpr{1, op1, 2}, op2, 3}
GroupsLeft(n, op1, op2) ==
    /\ IsBinary(n, op2) /\ IsBinary(n.kids[1], op1) /\ IsInt(n.kids[2], 3)
    /\ IsInt(n.kids[1].kids[1], 1) /\ IsInt(n.kids[1].kids[2], 2)

\* the tree the precedence table gives to 1 op1 2 op2 3: the operator of
\* higher precedence binds first, and the first one when they are equal
TableTree(n, op1, op2) ==
    IF Precedence[op2] > Precedence[op1] THEN GroupsRight(n, op1, op2)
    ELSE GroupsLeft(n, op1, op2)

\* C22: for integer operands and any of the 13 binary operators, the
\* expression parser returns the tree of the precedence table: 1 op 2 parses
\* to BinaryExpr{1, op, 2}; in 1 op1 2 op2 3 the operator of higher
\* precedence binds first, and operators of equal precedence group
\* left-to-right, so 1 - 2 - 3 parses to BinaryExpr{BinaryExpr{1, -, 2}, -, 3}.
C22_Precedence ==
    FirstExpression =>
        /\ \A op \in BinaryOps :
              lexer.text = Expr2(op) =>
                  /\ parsed[1].kind = "Ok" /\ IsBinary(parsed[1].node, op)
                  /\ IsInt(parsed[1].node.kids[1], 1) /\ IsInt(parsed[1].node.kids[2], 2)
        /\ \A op1, op2 \in BinaryOps :
              lexer.text = Expr3(op1, op2) =>
                  parsed[1].kind = "Ok" /\ TableTree(parsed[1].node, op1, op2)

\* what the code does: PRECEDENCE_TABLE holds CompLTE twice and CompGTE not
\* at all, so operator_precedence panics on >= wherever it stands; the
\* other 12 operators give the tree of the table.
C22_CodeBehaviour ==
    FirstExpression =>
        /\ \A op \in BinaryOps :
              lexer.text = Expr2(op) =>
                  IF op = "CompGTE" THEN parsed[1].kind = "panic"
                  ELSE parsed[1].kind = "Ok" /\ IsBinary(parsed[1].node, op)
        /\ \A op1, op2 \in BinaryOps :
              lexer.text = Expr3(op1, op2) =>
                  IF "CompGTE" \in {op1, op2} THEN parsed[1].kind = "panic"
                  ELSE parsed[1].kind = "Ok" /\ TableTree(parsed[1].node, op1, op2)

\* 1 + 2 * 3 and 1 - 2 - 3 were parsed to the trees of the table
C22_TreesReached ==
    \/ FirstExpression /\ lexer.text = Expr3("Add", "Mul")
          /\ parsed[1].kind = "Ok" /\ GroupsRight(parsed[1].node, "Add", "Mul")
    \/ FirstExpression /\ lexer.text = Expr3("Sub", "Sub")
          /\ parsed[1].kind = "Ok" /\ GroupsLeft(parsed[1].node, "Sub", "Sub")

\* 1 >= 2 was given to the parser
C22_GTEReached == FirstExpression /\ lexer.text = Expr2("CompGTE")

\* UnaryExpr{op, operand}
IsUnary(n, op) == n.node = "UnaryExpr" /\ n.op = op /\ Len(n.kids) = 1

\* the texts -1 * 2 and !-1
NegatedProduct == <<45, 49, 32, 42, 32, 50>>

NotNegated == <<33, 45, 49>>

\* the parser stopped in front of the end of the file
InputConsumed == tokbuf # <<>> /\ tokbuf[1].tt = "EOF"

\* C25: a prefix - or ! is parsed as a UnaryExpr that binds tighter than
\* every binary operator: -1 * 2 parses to BinaryExpr{UnaryExpr{-, 1}, *, 2}
\* with the whole input consumed, and stacked prefixes nest to the right,
\* so !-1 parses to UnaryExpr{!, UnaryExpr{-, 1}}; -1 and !1 parse to
\* UnaryExpr{-, 1} and UnaryExpr{!, 1}.
C25_UnaryPrefix ==
    FirstExpression =>
        /\ lexer.text = NegatedProduct =>
              /\ parsed[1].kind = "Ok" /\ InputConsumed
              /\ IsBinary(parsed[1].node, "Mul")
              /\ IsUnary(parsed[1].node.kids[1], "Negation")
              /\ IsInt(parsed[1].node.kids[1].kids[1], 1)
              /\ IsInt(parsed[1].node.kids[2], 2)
        /\ lexer.text = NotNegated =>
              /\ parsed[1].kind = "Ok" /\ InputConsumed
              /\ IsUnary(parsed[1].node, "Not")
              /\ IsUnary(parsed[1].node.kids[1], "Negation")
              /\ IsInt(parsed[1].node.kids[1].kids[1], 1)
        /\ lexer.text \in {<<45, 49>>, <<33, 49>>} =>
              /\ parsed[1].kind = "Ok" /\ InputConsumed
              /\ IsUnary(parsed[1].node, IF lexer.text[1] = 45 THEN "Negation" ELSE "Not")
              /\ IsInt(parsed[1].node.kids[1], 1)

\* what the code does: the two entries of the unary operators are commented
\* out of PRECEDENCE_TABLE, so parse_left_unary_expr panics in
\* operator_precedence once it has consumed the operator, wherever the
\* prefix stands.
C25_CodeBehaviour ==
    FirstExpression /\ lexer.text \in UnaryTexts =>
        /\ parsed[1].kind = "panic"
        /\ parser.prec = 0

\* -1 * 2 was given to the parser
C25_PrefixReached == FirstExpression /\ lexer.text = NegatedProduct

---------------------------------------------------------------------------
(* The indent stack (SpecParser) *)

\* a stack of BytePos strictly increasing from bottom to top
StrictlyIncreasing(levels) ==
    \A i \in 1..(Len(levels) - 1) : BytePos_lt(levels[i], levels[i + 1])

\* no call on the parser has panicked or hung
ParserAlive == lx_status = "ok"

\* C30: an indented block is entered only when the indent gap of its first
\* line is strictly greater than the enclosing indent, so in every reachable
\* parser state the indent stack is non-empty and strictly increasing from
\* bottom to top, and a successful Block parse leaves the indent stack
\* exactly as it was on entry.
C30_IndentStack ==
    /\ parser.indent # <<>>
    /\ ParserAlive => StrictlyIncreasing(parser.indent)
    /\ \A k \in 1..Len(parser.blocks) :
          LET b == parser.blocks[k]
          IN /\ StrictlyIncreasing(b.entry)
             /\ b.kind = "Ok" => b.exit = b.entry
             /\ b.kind = "Ok" /\ b.form = "indented" => BytePos_lt(EntryTop(b), b.gap[1])

\* what the code does: Block::parse refuses a first line whose gap equals
\* the enclosing indent and enters the block for any other gap, a smaller
\* one included; a successful parse restores the stack, and one that fails
\* inside the loop returns without dedent.
C30_CodeBehaviour ==
    /\ parser.indent # <<>> /\ parser.indent[1] = 0
    /\ \A k \in 1..Len(parser.blocks) :
          LET b == parser.blocks[k]
          IN /\ b.kind = "Ok" => b.exit = b.entry
             /\ b.kind = "Ok" /\ b.form = "indented" => b.gap[1] # EntryTop(b)
             /\ Len(b.exit) >= Len(b.entry)
             /\ SubSeq(b.exit, 1, Len(b.entry)) = b.entry

\* a block was entered with a gap of 1 inside a block of indent 2 and
\* returned Ok
C30_DedentedBlockReached ==
    \E k \in 1..Len(parser.blocks) :
        LET b == parser.blocks[k]
        IN /\ b.kind = "Ok" /\ b.form = "indented"
           /\ EntryTop(b) = 2 /\ b.gap = Some(1)

\* a call returned Err and left the indent stack <<0, 2, 1>>
C30_StackLeftReached ==
    /\ ParserAlive /\ parsed # <<>> /\ parsed[Len(parsed)].kind = "Err"
    /\ parser.indent = <<0, 2, 1>>

---------------------------------------------------------------------------
\* Part 4: the symbol table of the semantic analyzer (rosac_sema).  The
\* stack of scopes is a sequence, the global scope first; a scope, a
\* HashMap<String, Symbol>, is the set of its entries [name, sym], one at
\* most for a name.

\* HashMap::new
HashMap_new == {}

\* HashMap::contains_key
contains_key(scope, name) == \E e \in scope : e.name = name

\* HashMap::get
HashMap_get(scope, name) ==
    IF contains_key(scope, name) THEN Some((CHOOSE e \in scope : e.name = name).sym) ELSE None

\* HashMap::insert: the entry of the name is replaced
HashMap_insert(scope, name, sym) ==
    {e \in scope : e.name # name} \cup {[name |-> name, sym |-> sym]}

\* SymbolTable::new
SymbolTable_new == <<HashMap_new>>

\* SymbolTable::scope_level
scope_level(tbl) == Len(tbl)

\* what a call of the symbol table leaves and returns: [tbl, ret, found],
\* ret being "Ok", the SymTabError, or "panic", and found the Option<&Symbol>
\* of a lookup
Result(tbl, ret, found) == [tbl |-> tbl, ret |-> ret, found |-> found]

\* SymbolTable::scope_enter
scope_enter(tbl) == Result(Append(tbl, HashMap_new), "Ok", None)

\* a mutant of scope_exit: the global scope is dropped like any other
scope_exit_unguarded(tbl) ==
    IF tbl = <<>> THEN Result(tbl, "panic", None)
    ELSE Result(SubSeq(tbl, 1, Len(tbl) - 1), "Ok", None)

\* SymbolTable::scope_exit
scope_exit(tbl) ==
    IF scope_level(tbl) = 1 THEN Result(tbl, "ExitGlobalScope", None)
    ELSE IF tbl = <<>> THEN Result(tbl, "panic", None)
    ELSE Result(SubSeq(tbl, 1, Len(tbl) - 1), "Ok", None)

RECURSIVE scope_lookup_from(_, _, _)
\* for scope in self.stack.iter().rev(), from scope number k down
scope_lookup_from(tbl, name, k) ==
    IF k = 0 THEN None
    ELSE IF contains_key(tbl[k], name) THEN HashMap_get(tbl[k], name)
    ELSE scope_lookup_from(tbl, name, k - 1)

\* a mutant of scope_lookup: the top-most scope only
scope_lookup_innermost(tbl, name) ==
    IF tbl = <<>> THEN None ELSE HashMap_get(tbl[Len(tbl)], name)

\* SymbolTable::scope_lookup
scope_lookup(tbl, name) == scope_lookup_from(tbl, name, Len(tbl))

\* SymbolTable::scope_lookup_top; top_most() unwraps the last scope
scope_lookup_top(tbl, name) ==
    IF tbl = <<>> THEN Result(tbl, "panic", None)
    ELSE Result(tbl, "Ok", HashMap_get(tbl[Len(tbl)], name))

\* SymbolTable::scope_bind; top_most_mut() unwraps the last scope
scope_bind(tbl, name, sym) ==
    IF scope_lookup(tbl, name) # None THEN Result(tbl, "ShadowSymbol", None)
    ELSE IF tbl = <<>> THEN Result(tbl, "panic", None)
    ELSE Result([tbl EXCEPT ![Len(tbl)] = HashMap_insert(@, name, sym)], "Ok", None)

---------------------------------------------------------------------------
(* SpecSymbolTable: any sequence of calls on a new SymbolTable *)

\* the names bob and alice, and the symbols bound to them (by their number)
Names == {"bob", "alice"}

Symbols == {0, 1}

\* the latest call: none yet
NoCall == [op |-> "new", name |-> "", sym |-> 0, ret |-> "Ok", found |-> None]

InitSymbolTable ==
    /\ NoVM /\ NoDynInt /\ NoLexer /\ NoParser
    /\ table = SymbolTable_new
    /\ symcall = NoCall

\* a call returned r (or panicked)
TableReturns(op, name, sym, r) ==
    /\ table' = r.tbl
    /\ symcall' = [op |-> op, name |-> name, sym |-> sym, ret |-> r.ret, found |-> r.found]
    /\ UNCHANGED outside_sy

\* tbl.scope_enter(), as long as fewer than MaxScopes scopes are open
SymbolTable_scope_enter ==
    /\ symcall.ret # "panic" /\ scope_level(table) < MaxScopes
    /\ TableReturns("scope_enter", "", 0, scope_enter(table))

\* tbl.scope_exit()
SymbolTable_scope_exit ==
    /\ symcall.ret # "panic"
    /\ TableReturns("scope_exit", "", 0, scope_exit(table))

\* tbl.scope_bind(name, sym)
SymbolTable_scope_bind ==
    /\ symcall.ret # "panic"
    /\ \E name \in Names, sym \in Symbols :
          TableReturns("scope_bind", name, sym, scope_bind(table, name, sym))

\* tbl.scope_lookup(name)
SymbolTable_scope_lookup ==
    /\ symcall.ret # "panic"
    /\ \E name \in Names :
          TableReturns("scope_lookup", name, 0, Result(table, "Ok", scope_lookup(table, name)))

\* tbl.scope_lookup_top(name)
SymbolTable_scope_lookup_top ==
    /\ symcall.ret # "panic"
    /\ \E name \in Names :
          TableReturns("scope_lookup_top", name, 0, scope_lookup_top(table, name))

NextSymbolTable ==
    \/ SymbolTable_scope_enter
    \/ SymbolTable_scope_exit
    \/ SymbolTable_scope_bind
    \/ SymbolTable_scope_lookup
    \/ SymbolTable_scope_lookup_top

SpecSymbolTable == InitSymbolTable /\ [][NextSymbolTable]_vars

\* the step is the return of a call of op
Call(op) == symcall'.op = op

\* the stack without its top-most scope
Enclosing(tbl) == SubSeq(tbl, 1, Len(tbl) - 1)

\* what scope_exit does in a step
C23_Step ==
    Call("scope_exit") =>
        IF scope_level(table) = 1
        THEN symcall'.ret = "ExitGlobalScope" /\ table' = table
        ELSE symcall'.ret = "Ok" /\ table' = Enclosing(table)

\* C23: for any sequence of scope_enter, scope_exit and scope_bind calls on
\* a SymbolTable, the global scope is never removed (scope_level() >= 1 in
\* every reachable state): scope_exit at level 1 returns
\* Err(ExitGlobalScope) and leaves the table unchanged, and at a higher
\* level it removes exactly the top-most scope.
C23_GlobalScope == [](scope_level(table) >= 1) /\ [][C23_Step]_vars

\* scope_exit was refused at level 1 with a symbol bound in the global scope
C23_Witness ==
    /\ symcall.op = "scope_exit" /\ symcall.ret = "ExitGlobalScope"
    /\ scope_level(table) = 1 /\ table[1] # {}

\* scope_exit removed a scope that held a symbol
C23_WitnessExit ==
    /\ symcall.op = "scope_exit" /\ symcall.ret = "Ok"
    /\ scope_level(table) = 2 /\ table[1] # {}

\* the name is bound in a scope of the stack
IsBound(tbl, name) == \E k \in 1..Len(tbl) : contains_key(tbl[k], name)

\* the table with the symbol added to its top-most scope
Bound(tbl, name, sym) ==
    [tbl EXCEPT ![Len(tbl)] = @ \cup {[name |-> name, sym |-> sym]}]

\* what scope_bind, scope_enter and scope_lookup do in a step
C24_Step ==
    /\ Call("scope_bind") =>
          IF IsBound(table, symcall'.name)
          THEN symcall'.ret = "ShadowSymbol" /\ table' = table
          ELSE /\ symcall'.ret = "Ok"
               /\ table' = Bound(table, symcall'.name, symcall'.sym)
               /\ scope_lookup(table', symcall'.name) = Some(symcall'.sym)
    /\ Call("scope_enter") =>
          /\ scope_level(table') = scope_level(table) + 1
          /\ \A n \in Names : scope_lookup(table', n) = scope_lookup(table, n)
    /\ Call("scope_lookup") =>
          /\ table' = table
          /\ symcall'.found # None <=> IsBound(table, symcall'.name)

\* every symbol bound in a scope of the stack is what scope_lookup finds for
\* its name, from the top-most scope
AllVisible ==
    \A k \in 1..Len(table) : \A e \in table[k] : scope_lookup(table, e.name) = Some(e.sym)

\* C24: scope_bind(name, sym) returns Err(ShadowSymbol) and leaves every
\* scope unchanged whenever name is already bound in any scope on the stack,
\* including an enclosing scope below the current one; otherwise it inserts
\* the symbol into the top-most scope, after which scope_lookup(name) finds
\* it from that scope and from every scope entered later.
C24_BindLookup == []AllVisible /\ [][C24_Step]_vars

\* a bind was refused for a name bound in an enclosing scope only
C24_Witness ==
    /\ symcall.op = "scope_bind" /\ symcall.ret = "ShadowSymbol"
    /\ scope_level(table) >= 2
    /\ ~contains_key(table[Len(table)], symcall.name)
    /\ contains_key(table[1], symcall.name)

\* a lookup found, two scopes above, a symbol bound in the global scope
C24_WitnessLookup ==
    /\ symcall.op = "scope_lookup" /\ symcall.found # None
    /\ scope_level(table) = 3 /\ table[2] = {} /\ table[3] = {}


---------------------------------------------------------------------------
(* The growth of the stack buffer (SpecStack)                              *)

\* call i is a push
IsPush(i) == calls[i].op = "push"

\* call i stored its bytes at stack[sp, sp + n) and advanced sp by n
PushStored(i) ==
    LET c == calls[i]
    IN /\ c.ok
       /\ SpAfter(i) = c.sp + c.n
       /\ StackAfter(i).len >= c.sp + c.n
       /\ \A k \in 1..c.n : at(StackAfter(i), c.sp + k - 1) = c.arg[k]

\* call i found a buffer too short for its bytes, and its bytes are more
\* than the whole buffer: extend_stack(sp) leaves it shorter than sp + n
GrowthFallsShort(i) ==
    LET c == calls[i]
    IN c.stack.len < c.sp + c.n /\ c.n > c.stack.len

\* C26: whatever the initial stack size and the pushes and pops before it,
\* a push of n bytes completes with its bytes at stack[sp, sp + n) and
\* sp' = sp + n, the buffer grown when sp + n exceeded its length, and
\* 0 <= sp <= stack.length in every reachable state.
C26_PushGrows ==
    /\ 0 <= sp /\ sp <= stack.len
    /\ \A i \in 1..Len(calls) : IsPush(i) => PushStored(i)

\* what the code does: the push panics exactly when the buffer has to grow
\* and the bytes are more than the buffer holds, leaving sp where it was and
\* the buffer grown by sp; every other push is as C26 says
C26_CodeBehaviour ==
    /\ 0 <= sp /\ sp <= stack.len
    /\ \A i \in 1..Len(calls) :
          IsPush(i) =>
            IF GrowthFallsShort(i)
            THEN /\ ~calls[i].ok
                 /\ i = Len(calls) /\ status = "panic"
                 /\ sp = calls[i].sp
                 /\ stack.len = calls[i].stack.len + calls[i].sp
            ELSE PushStored(i)

\* with_stack_size(_, 0, _), then a push of one byte panics on stack[0..1]
C26_EmptyBufferPanic ==
    /\ Len(calls) = 1 /\ IsPush(1)
    /\ calls[1].stack.len = 0 /\ calls[1].n = 1
    /\ status = "panic"

\* a push that had to grow the buffer and completed: 2 bytes on sp = 1 of a
\* buffer of 2
C26_GrownPush ==
    /\ Len(calls) = 2 /\ IsPush(1) /\ IsPush(2)
    /\ calls[2].stack.len = 2 /\ calls[2].sp = 1 /\ calls[2].n = 2
    /\ stack.len = 3 /\ sp = 3 /\ status = "running"


---------------------------------------------------------------------------
(* A dyn-int operand that the chunk ends in (Spec)                         *)

\* the latest instruction is a Const whose operand has its first byte in the
\* chunk, and that byte announces more bytes than the chunk has left
OperandCutShort ==
    /\ steps > 0
    /\ last.op = ConstOpcode
    /\ last.ip + 1 < Len(program)
    /\ last.ip + 2 + ones_before_zero(program[last.ip + 2]) > Len(program)

\* C27: a Const whose dyn-int operand is cut short by the end of the chunk
\* (the first byte announces k more bytes, fewer than k remain) stops the VM
\* with the DynInt error.
C27_ShortOperand == OperandCutShort => (status = "err" /\ err = DynInt)

\* what the code does: the slice program.data.get(ip - 1..ip + size) is None,
\* so run() returns ProgramOverFlow with ip just past the first byte of the
\* operand and the stack as it was; no run returns DynInt at all
C27_CodeBehaviour ==
    /\ OperandCutShort =>
          /\ status = "err" /\ err = ProgramOverFlow
          /\ ip = last.ip + 2
          /\ sp = last.sp /\ stack = last.stack /\ exit = last.exit
    /\ err # DynInt

\* [Const, 0x80]: the operand announces one more byte and the chunk ends
C27_CutShortReached ==
    /\ OperandCutShort
    /\ ones_before_zero(program[last.ip + 2]) = 1
    /\ Len(program) = last.ip + 2
    /\ status = "err"


---------------------------------------------------------------------------
(* Termination of run() (SpecRun)                                          *)

\* chunks of up to MaxChunkLen - 1 bytes over main's pool, on an empty and on
\* a sufficient stack buffer; every arithmetic opcode; main's program
RunInputs ==
    {inp \in SmallInputs :
        /\ Len(inp.program) < MaxChunkLen
        /\ inp.pool = MainPool
        /\ inp.stack_size \in {0, MaxStackSize}}
    \cup OneOperandInputs \cup {MainInput}

InitRun ==
    /\ \E inp \in RunInputs : with_stack_size(inp.program, inp.stack_size, inp.pool)
    /\ OnlyVM

\* run() is a plain loop: a turn that can be taken is taken
SpecRun == InitRun /\ [][Next]_vars /\ WF_vars(Next)

\* a turn of the loop that dispatched an instruction
Dispatched == steps' = steps + 1

\* every instruction leaves ip further on
IpAdvances == [][Dispatched => ip' > ip]_vars

\* no step moves ip backwards
IpMonotone == [][ip' >= ip]_vars

\* C28: whatever the chunk and the pool, run() terminates with an exit code
\* or a runtime error; every executed instruction strictly increases ip, no
\* instruction moves ip backwards, and ip never exceeds the program length.
C28_RunTerminates ==
    /\ IpAdvances
    /\ IpMonotone
    /\ [](ip <= Len(program))
    /\ <>(status \in {"ok", "err"})

\* what the code does: ip moves as C28 says and run() stops, but it may stop
\* in a panic, inside an instruction, instead of returning
C28_CodeBehaviour ==
    /\ IpAdvances
    /\ IpMonotone
    /\ [](ip <= Len(program))
    /\ [](status = "panic" => steps > 0 /\ ip > last.ip)
    /\ [](status = "ok" => exit = Some(code))
    /\ [](status = "err" => err # NoErr)
    /\ <>[](status \in {"ok", "err", "panic"})

\* run() panicked in a Const on an empty stack buffer
C28_PanicReached ==
    /\ status = "panic"
    /\ last.op = ConstOpcode /\ last.stack.len = 0

\* run() returned after the ip ran off the end of main's chunk
C28_ReturnReached ==
    /\ status = "ok" /\ program = MainChunk /\ ip = Len(program) /\ steps = 4


---------------------------------------------------------------------------
(* Termination of lex() (SpecLexing)                                       *)

\* lex() is called again and again
SpecLexing == InitLexer /\ [][NextLexer]_vars /\ WF_vars(NextLexer)

\* call i, once past the whitespace, meets a # comment that the text ends
\* in: no line feed follows the #
EndsInComment(i) == skip_comments(skip_useless_whitespace(LexerBefore(i))).hang

\* call i returned: a token, an error, or a token with diagnostics
CallReturned(i) == lexed[i].kind \in {"Ok", "Err", "Fuzzy"}

\* C29: for every finite source text each lex() call returns a token or an
\* error after finitely many cursor steps, also when the text ends inside a
\* # comment without a line feed or with nothing in it, so that repeated
\* lex() calls eventually return EndOfFile.
C29_LexTerminates ==
    /\ [](\A i \in 1..Len(lexed) : CallReturned(i))
    /\ <>(EOFCalls # {})

\* what the code does: a call that meets a comment the text ends in never
\* returns (idx overflows or the loop spins), and no other call spins; a call
\* that returns anything but EndOfFile has moved the cursor forward, so the
\* calls reach EndOfFile unless one of them does not return
C29_CodeBehaviour ==
    \A i \in 1..Len(lexed) :
        /\ EndsInComment(i) => lexed[i].kind \in {"panic", "hang"}
        /\ lexed[i].kind = "hang" => EndsInComment(i)
        /\ ~CallReturned(i) => i = Len(lexed) /\ lx_status = lexed[i].kind
        /\ (CallReturned(i) /\ i \notin EOFCalls) =>
              /\ lexed[i].after.it > lexed[i].before.it
              /\ lexed[i].after.it <= Len(lexer.text)
        /\ (CallReturned(i) /\ lexed[i].after.it = Len(lexer.text) /\ i < Len(lexed)) =>
              (i + 1 \in EOFCalls \/ ~CallReturned(i + 1))

\* "a #": the call after the identifier spins in the comment
C29_CommentHangs ==
    /\ lexer.text = <<97, 32, 35>>
    /\ Len(lexed) = 2 /\ lexed[1].tok.tt = "Ident"
    /\ EndsInComment(2) /\ lexed[2].kind = "hang"

\* a comment closed by a line feed is skipped and EndOfFile is returned
C29_CommentSkipped ==
    /\ lexer.text = <<97, 32, 35, 32, 99, 10, 32, 98>>
    /\ Len(lexed) = 3 /\ lexed[2].tok.tt = "Ident" /\ 3 \in EOFCalls

===========================================================================
